---- MODULE Spec2Model ----
(***************************************************************************)
(* Model of the math-expression ingestion pipeline of Math-Extractor:      *)
(*   services/ocr/pipeline.py                  (MathExpressionPipeline)    *)
(*   services/ocr/dynamic_latex_reconstructor.py                           *)
(*   services/ocr/mathml_recovery_pro.py       (ultra_mathml_recover)      *)
(*   services/ocr/latex_to_mathml.py           (LatexToMathML.convert)     *)
(*   services/ocr/openai_mathml_converter.py   (OpenAIMathMLConverter)     *)
(*                                                                         *)
(* Text is a sequence of tokens.  A token is one character, or one markup  *)
(* tag that the program's regular expressions only ever match as a whole.  *)
(* Characters outside ASCII carry a name (BULLET, E_ACUTE, COMB_ACUTE).    *)
(***************************************************************************)
EXTENDS Integers, Sequences, FiniteSets, TLC

VARIABLES
    \* -- MathExpressionPipeline.ingest, one run --
    raw_text,             \* the argument of ingest
    recover_from_mathml,  \* pipeline.py:26-29, the recovery module was imported
    openai_api_key,       \* core/config.py settings.openai_api_key is not None
    pc,                   \* where the run stands: "ingest", a branch, "done"
    cleaned_mathml,       \* local of the MathML branch
    clean_latex,          \* local of the LaTeX branch
    is_corrupted,         \* the verdict of the latest corruption check on the input
    recovery_out,         \* out of _recover_mathml: what recover_from_mathml returned
    result,               \* the PipelineResult returned
    failed,               \* the components that failed during the run
    trace,                \* the calls the run made, in order: reconstruct, openai, compile
    \* -- DynamicLaTeXReconstructor.reconstruct, called and called again --
    rin,      \* the text handed to reconstruct
    rfirst,   \* the text the first call returned
    rout,     \* the text the latest call returned
    rstage,   \* "input", "once" (one call), "twice" (fed back once)
    \* -- OpenAIMathMLConverter.__init__ on two threads --
    environ,  \* os.environ: the proxy variables that are set
    tpc,      \* per thread: the statement it stands at
    tkey,     \* per thread: the index into proxy_keys of the loop it is in
    saved,    \* per thread: proxy_env_vars
    seen,     \* per thread: the proxy variables set when it built its client
    environ0, \* os.environ before the first thread started
    client,   \* per thread: self.client, and the timeout it was built with
    \* -- LatexToMathML.convert on a block of rows --
    block_rows, \* the rows of the block, each a sequence of cells
    block_out,  \* what convert returned: the MathML, or that it raised
    block_pc,   \* "given" before the call, "done" after it
    \* -- ultra_mathml_recover of mathml_recovery.py --
    legacy_run,        \* what the passes of the call come to
    legacy_confidence, \* the confidence of the dict returned
    legacy_pc,         \* "given" before the call, "done" after it
    \* -- _repair_shredded_commands and _collapse_letter_subscripts on a text --
    shred_in,   \* the text handed to the function
    shred_run,  \* what the call came to: the text returned, the passes of its loop, its log
    shred_pc,   \* "given" before the call, then "repaired" or "collapsed"
    \* -- LatexToMathML._repair_latex_line on a line --
    line_in,    \* the line handed to the function
    line_out,   \* the line it returned
    line_pc,    \* "given" before the call, "done" after it
    \* -- Pix2TexAutoFixer.fix_and_convert, one call --
    fixer,             \* self: max_attempts, validate, and what _ocr does
    fix_image,         \* "missing", "unreadable" (preprocessing raises) or "ok"
    fix_has_compiler,  \* the module's HAS_LATEX2MATHML
    fix_raw,           \* what the OCR model returns for the image
    fix_candidate,     \* local candidate
    fix_attempts,      \* local attempts
    fix_result,        \* the FixResult returned
    fix_pc             \* "start", "loop", "done", or "raised"

\* the input and the configuration of a run
givenVars == <<raw_text, recover_from_mathml, openai_api_key>>
pipeVars == <<givenVars, pc, cleaned_mathml, clean_latex, is_corrupted, recovery_out,
              result, failed, trace>>
reconVars == <<rin, rfirst, rout, rstage>>
concVars == <<environ, tpc, tkey, saved, seen, environ0, client>>
blockVars == <<block_rows, block_out, block_pc>>
legacyVars == <<legacy_run, legacy_confidence, legacy_pc>>
shredVars == <<shred_in, shred_run, shred_pc>>
lineVars == <<line_in, line_out, line_pc>>
fixVars == <<fixer, fix_image, fix_has_compiler, fix_raw, fix_candidate, fix_attempts,
             fix_result, fix_pc>>
vars == <<pipeVars, reconVars, concVars, blockVars, legacyVars, shredVars, lineVars, fixVars>>

(***************************************************************************)
(* Bounds                                                                  *)
(***************************************************************************)
\* longest text handed to the reconstructor
MaxLen == 4
\* most fragments in the body of a MathML input
MaxBody == 3
\* most fragments in a LaTeX or plain input
MaxLatex == 3

(***************************************************************************)
(* Character classes of the regular expressions (Python re, str methods)   *)
(***************************************************************************)
\* str.strip() / str.split() / \s
WS == {" ", "\n"}
\* [A-Za-z]
Letters == {"a", "c", "d", "e", "f", "h", "i", "l", "m", "n", "o", "p", "q", "r", "s", "t",
            "u", "x", "P"}
\* [0-9]
Digits == {"0", "1"}
\* [A-Za-z0-9]
Alnum == Letters \cup Digits
\* [),\]]
ClosePunct == {")", ",", "]"}

\* all texts of at most n tokens over alphabet A
SeqsUpTo(A, n) == UNION {[1..k -> A] : k \in 0..n}

RECURSIVE Count(_, _)
\* str.count(c)
Count(s, c) ==
    IF s = <<>> THEN 0
    ELSE (IF Head(s) = c THEN 1 ELSE 0) + Count(Tail(s), c)

RECURSIVE Repeat(_, _)
\* c * n
Repeat(c, n) == IF n <= 0 THEN <<>> ELSE <<c>> \o Repeat(c, n - 1)

RECURSIVE LStrip(_)
LStrip(s) ==
    IF s = <<>> THEN s
    ELSE IF Head(s) \in WS THEN LStrip(Tail(s)) ELSE s

RECURSIVE RStrip(_)
RStrip(s) ==
    IF s = <<>> THEN s
    ELSE IF s[Len(s)] \in WS THEN RStrip(SubSeq(s, 1, Len(s) - 1)) ELSE s

\* str.strip()
strip(s) == RStrip(LStrip(s))

RECURSIVE SqueezeWs(_)
\* every run of whitespace becomes one space
SqueezeWs(s) ==
    IF s = <<>> THEN <<>>
    ELSE IF Head(s) \in WS
         THEN <<" ">> \o SqueezeWs(LStrip(s))
         ELSE <<Head(s)>> \o SqueezeWs(Tail(s))

\* " ".join(s.split())
JoinSplit(s) == SqueezeWs(strip(s))

RECURSIVE RemoveAll(_, _)
\* s.replace(g, "") for every g of G
RemoveAll(s, G) ==
    IF s = <<>> THEN <<>>
    ELSE IF Head(s) \in G THEN RemoveAll(Tail(s), G)
         ELSE <<Head(s)>> \o RemoveAll(Tail(s), G)

(***************************************************************************)
(* DynamicLaTeXReconstructor                                               *)
(***************************************************************************)
\* unicodedata.normalize("NFKD", c): the decomposition of one character
NFKD(c) == IF c = "E_ACUTE" THEN <<"e", "COMB_ACUTE">> ELSE <<c>>

\* unicodedata.category(c) == "Mn"
CategoryMn == {"COMB_ACUTE"}

RECURSIVE Decompose(_)
Decompose(s) ==
    IF s = <<>> THEN <<>> ELSE NFKD(Head(s)) \o Decompose(Tail(s))

_normalize_unicode(text) == RemoveAll(Decompose(text), CategoryMn)

\* the garbage list of _remove_ocr_noise that survives NFKD
Garbage == {"BULLET"}

_remove_ocr_noise(s) == JoinSplit(RemoveAll(s, Garbage))

RECURSIVE SkipRun(_, _)
\* the text after its leading run of c
SkipRun(s, c) ==
    IF s # <<>> /\ Head(s) = c THEN SkipRun(Tail(s), c) ELSE s

RECURSIVE SquashUnderscores(_)
\* re.sub(r"__+", "_", s)
SquashUnderscores(s) ==
    IF s = <<>> THEN <<>>
    ELSE IF Len(s) >= 2 /\ s[1] = "_" /\ s[2] = "_"
         THEN <<"_">> \o SquashUnderscores(SkipRun(s, "_"))
         ELSE <<Head(s)>> \o SquashUnderscores(Tail(s))

RECURSIVE BraceSubscripts(_)
\* re.sub(r"([A-Za-z0-9])_\s*([A-Za-z0-9])", r"\1_{\2}", s)
BraceSubscripts(s) ==
    IF s = <<>> THEN <<>>
    ELSE LET rest == IF Len(s) >= 2 THEN LStrip(SubSeq(s, 3, Len(s))) ELSE <<>>
         IN IF Len(s) >= 3 /\ s[1] \in Alnum /\ s[2] = "_"
               /\ rest # <<>> /\ Head(rest) \in Alnum
            THEN <<s[1], "_", "{", Head(rest), "}">> \o BraceSubscripts(Tail(rest))
            ELSE <<Head(s)>> \o BraceSubscripts(Tail(s))

RECURSIVE DropBeforePunct(_, _)
\* re.sub(c + r"(?=[),\]])", "", s)
DropBeforePunct(s, c) ==
    IF s = <<>> THEN <<>>
    ELSE IF Len(s) >= 2 /\ s[1] = c /\ s[2] \in ClosePunct
         THEN DropBeforePunct(Tail(s), c)
         ELSE <<Head(s)>> \o DropBeforePunct(Tail(s), c)

_fix_script_noise(s) ==
    DropBeforePunct(DropBeforePunct(BraceSubscripts(SquashUnderscores(s)), "_"), "^")

RECURSIVE DropTrailing(_, _, _)
\* while diff > 0 and s.endswith(c): s = s[:-1]; diff -= 1
DropTrailing(s, c, diff) ==
    IF diff > 0 /\ s # <<>> /\ s[Len(s)] = c
    THEN DropTrailing(SubSeq(s, 1, Len(s) - 1), c, diff - 1)
    ELSE s

_fix_braces(s) ==
    LET opens == Count(s, "{")
        closes == Count(s, "}")
    IN IF opens > closes THEN s \o Repeat("}", opens - closes)
       ELSE IF closes > opens THEN DropTrailing(s, "}", closes - opens)
       ELSE s

\* latex[1:-1] of a text that starts and ends with "$"
Unquote(s) == IF Len(s) <= 2 THEN <<>> ELSE SubSeq(s, 2, Len(s) - 1)

reconstruct(latex) ==
    IF strip(latex) = <<>> THEN <<>>
    ELSE LET l1 == strip(latex)
             l2 == IF Head(l1) = "$" /\ l1[Len(l1)] = "$" THEN strip(Unquote(l1)) ELSE l1
         IN strip(_fix_braces(_fix_script_noise(_remove_ocr_noise(_normalize_unicode(l2)))))

(***************************************************************************)
(* Markup tokens.  A tag is one token, spelled as in the program's text.   *)
(***************************************************************************)
MathNs == "<math xmlns=\"http://www.w3.org/1998/Math/MathML\">"
MathPlain == "<math>"
\* the root the external compiler (latex2mathml) writes
MathInline == "<math xmlns=\"http://www.w3.org/1998/Math/MathML\" display=\"inline\">"
\* the same root once LatexToMathML._ensure_namespace has gone over it
MathInlineBare == "<math display=\"inline\">"
MathBlock == "<math xmlns=\"http://www.w3.org/1998/Math/MathML\" display=\"block\">"
ErrUltraMissing == "<math xmlns=\"http://www.w3.org/1998/Math/MathML\" data-error=\"ultra-missing\"/>"
ErrUltraCrash == "<math xmlns=\"http://www.w3.org/1998/Math/MathML\" data-error=\"ultra-crash\"/>"
ErrRecoveryFailed == "<math xmlns=\"http://www.w3.org/1998/Math/MathML\" data-error=\"mathml-recovery-failed\"/>"
ErrConversionFailed == "<math xmlns=\"http://www.w3.org/1998/Math/MathML\" data-error=\"conversion-failed\"/>"

MathOpenTags == {MathNs, MathPlain, MathInline, MathInlineBare, MathBlock}
ErrorRoots == {ErrUltraMissing, ErrUltraCrash, ErrRecoveryFailed, ErrConversionFailed}
\* the tags of the table the multi-line builder writes
MathBlockTwice == "<math xmlns=\"http://www.w3.org/1998/Math/MathML\" xmlns=\"http://www.w3.org/1998/Math/MathML\" display=\"block\">"
Mtable == "<mtable align=\"left\">"
TableOpenTags == {MathBlockTwice, Mtable, "<mtr>", "<mtd>"}
OpenTags == MathOpenTags \cup {"<mrow>", "<mi>", "<mo>", "<mn>", "<mtext>", "<msub>"} \cup TableOpenTags
CloseTags == {"</math>", "</mrow>", "</mi>", "</mo>", "</mn>", "</mtext>", "</msub>",
              "</mtable>", "</mtr>", "</mtd>"}
EmptyTags == ErrorRoots \cup {"<mi />", "<mtext />", "<mtd />"}
Tags == OpenTags \cup CloseTags \cup EmptyTags

\* character references written by html.escape
Entities == {"&amp;", "&lt;", "&gt;"}

\* the element name of a tag
TagName(t) ==
    CASE t \in MathOpenTags \cup ErrorRoots \cup {"</math>", MathBlockTwice} -> "math"
      [] t \in {Mtable, "</mtable>"} -> "mtable"
      [] t \in {"<mtr>", "</mtr>"} -> "mtr"
      [] t \in {"<mtd>", "</mtd>", "<mtd />"} -> "mtd"
      [] t \in {"<mrow>", "</mrow>"} -> "mrow"
      [] t \in {"<mi>", "</mi>", "<mi />"} -> "mi"
      [] t \in {"<mo>", "</mo>"} -> "mo"
      [] t \in {"<mn>", "</mn>"} -> "mn"
      [] t \in {"<mtext>", "</mtext>", "<mtext />"} -> "mtext"
      [] t \in {"<msub>", "</msub>"} -> "msub"
      [] OTHER -> ""

\* whether the tag declares the MathML namespace
HasXmlns(t) == t \in {MathNs, MathInline, MathBlock} \cup ErrorRoots

\* len() of one token
Width(t) ==
    CASE t = MathNs -> 49
      [] t = MathPlain -> 6
      [] t = MathInline -> 66
      [] t = MathInlineBare -> 23
      [] t = MathBlock -> 65
      [] t = MathBlockTwice -> 108
      [] t = Mtable -> 21
      [] t \in {"<mtr>", "<mtd>"} -> 5
      [] t \in {"</mtr>", "</mtd>"} -> 6
      [] t = "<mtd />" -> 7
      [] t = "</mtable>" -> 9
      [] t = ErrUltraMissing -> 77
      [] t = ErrUltraCrash -> 75
      [] t = ErrRecoveryFailed -> 86
      [] t = ErrConversionFailed -> 81
      [] t \in {"<mi>", "<mo>", "<mn>"} -> 4
      [] t \in {"</mi>", "</mo>", "</mn>", "&amp;"} -> 5
      [] t \in {"<mrow>", "<msub>", "<mi />"} -> 6
      [] t \in {"</mrow>", "</msub>", "</math>", "<mtext>"} -> 7
      [] t = "</mtext>" -> 8
      [] t = "<mtext />" -> 9
      [] t \in {"&lt;", "&gt;"} -> 4
      [] OTHER -> 1

RECURSIVE len(_)
\* len(text)
len(s) == IF s = <<>> THEN 0 ELSE Width(Head(s)) + len(Tail(s))

\* "needle in text"
Contains(s, needle) ==
    \E i \in 1..(Len(s) - Len(needle) + 1) : SubSeq(s, i, i + Len(needle) - 1) = needle

\* the text up to, and not including, its first tag
TextBeforeTag(s) ==
    IF \E i \in 1..Len(s) : s[i] \in Tags
    THEN SubSeq(s, 1, (CHOOSE i \in 1..Len(s) : s[i] \in Tags /\ \A j \in 1..(i - 1) : s[j] \notin Tags) - 1)
    ELSE s

(***************************************************************************)
(* xml.etree.ElementTree, as far as the program uses it                    *)
(***************************************************************************)
\* characters that may not stand unescaped in XML text
XmlIllegal == {"&", "<"}

RECURSIVE Balanced(_, _, _)
\* the parser's walk: stack holds the names of the open elements, rooted says
\* that the root element has been opened; an attribute given twice is an
\* error
Balanced(s, stack, rooted) ==
    IF s = <<>> THEN stack = <<>> /\ rooted
    ELSE LET t == Head(s)
         IN IF t \in OpenTags
              THEN t # MathBlockTwice /\ ~(stack = <<>> /\ rooted) /\ Balanced(Tail(s), <<TagName(t)>> \o stack, TRUE)
            ELSE IF t \in EmptyTags
              THEN ~(stack = <<>> /\ rooted) /\ Balanced(Tail(s), stack, TRUE)
            ELSE IF t \in CloseTags
              THEN stack # <<>> /\ Head(stack) = TagName(t) /\ Balanced(Tail(s), Tail(stack), rooted)
            ELSE t \notin XmlIllegal /\ stack # <<>> /\ Balanced(Tail(s), stack, rooted)

NotWs(t) == t \notin WS

\* ET.fromstring(s) does not raise: one root element, every element closed
\* in order, nothing but whitespace outside the root (whitespace is allowed
\* everywhere, so the walk is over the other tokens)
ParsesAsXml(s) == Balanced(SelectSeq(s, NotWs), <<>>, FALSE)

\* the characters a parsed text node holds for one token of the source
XmlDecode(t) ==
    CASE t = "&amp;" -> "&" [] t = "&lt;" -> "<" [] t = "&gt;" -> ">" [] OTHER -> t

\* html.unescape / html.escape of one character
unescape(t) == XmlDecode(t)
escape(c) ==
    CASE c = "&" -> "&amp;" [] c = "<" -> "&lt;" [] c = ">" -> "&gt;" [] OTHER -> c

\* element.text: the decoded characters between an opening tag at position i
\* and the next tag
ElementText(s, i) ==
    LET raw == TextBeforeTag(SubSeq(s, i + 1, Len(s)))
    IN [k \in 1..Len(raw) |-> XmlDecode(raw[k])]

(***************************************************************************)
(* Regular expressions shared by the corruption checks.  The letters of    *)
(* the model are lower case, so re.IGNORECASE changes no match.            *)
(***************************************************************************)
\* the result of a match that failed (no text equals it)
Fail == <<"<no match>">>

RECURSIVE MatchSpaced(_, _)
\* s starts with the letters of word, \s* between them: l\s*e\s*f\s*t
MatchSpaced(s, word) ==
    IF word = <<>> THEN TRUE
    ELSE /\ s # <<>>
         /\ Head(s) = Head(word)
         /\ MatchSpaced(IF Len(word) = 1 THEN Tail(s) ELSE LStrip(Tail(s)), Tail(word))

\* the five loose patterns both MathML checks list
ShreddedWords ==
    { <<"l", "e", "f", "t">>, <<"r", "i", "g", "h", "t">>, <<"s", "u", "m">>,
      <<"f", "r", "a", "c">>, <<"m", "a", "t", "h", "b", "b">> }

HasShreddedWord(s) ==
    \E w \in ShreddedWords : \E i \in 1..Len(s) : MatchSpaced(SubSeq(s, i, Len(s)), w)

\* the text after one <mi>\s*\\?[a-zA-Z]\s*</mi>\s* at the start of s, or Fail
AfterMiLetter(s) ==
    IF s = <<>> \/ Head(s) # "<mi>" THEN Fail
    ELSE LET a == LStrip(Tail(s))
             b == IF a # <<>> /\ Head(a) = "\\" THEN Tail(a) ELSE a
             c == IF b # <<>> /\ Head(b) \in Letters THEN LStrip(Tail(b)) ELSE <<>>
         IN IF c # <<>> /\ Head(c) = "</mi>" THEN LStrip(Tail(c)) ELSE Fail

RECURSIVE MiRun(_)
\* how many times in a row the group matches at the start of s
MiRun(s) == IF AfterMiLetter(s) = Fail THEN 0 ELSE 1 + MiRun(AfterMiLetter(s))

\* (?:<mi>\s*\\?[a-zA-Z]\s*</mi>\s*){n,}
HasMiRun(s, n) == \E i \in 1..Len(s) : MiRun(SubSeq(s, i, Len(s))) >= n

\* tags that <m[iot][^>]*> matches
MiotTags == {"<mi>", "<mo>", "<mtext>", "<mi />", "<mtext />"}

\* <m[iot][^>]*>\\[A-Za-z]
HasBackslashInTag(s) ==
    \E i \in 1..(Len(s) - 2) : s[i] \in MiotTags /\ s[i + 1] = "\\" /\ s[i + 2] \in Letters

\* <mi>\\[a-z]</mi> at the start of s
MatchMiCommand(s) ==
    Len(s) >= 4 /\ s[1] = "<mi>" /\ s[2] = "\\" /\ s[3] \in Letters /\ s[4] = "</mi>"

\* "\\\\left" in s or "\\\\right" in s or "\\\\frac" in s
HasDoubleEscaped(s) ==
    \/ Contains(s, <<"\\", "\\", "l", "e", "f", "t">>)
    \/ Contains(s, <<"\\", "\\", "r", "i", "g", "h", "t">>)
    \/ Contains(s, <<"\\", "\\", "f", "r", "a", "c">>)

\* <mtext\b[^>]*>.*\\[A-Za-z]
HasMtextLatex(s) ==
    \E i \in 1..Len(s) : \E j \in (i + 1)..(Len(s) - 1) :
        /\ s[i] \in {"<mtext>", "<mtext />"} /\ s[j] = "\\" /\ s[j + 1] \in Letters
        /\ \A k \in (i + 1)..(j - 1) : s[k] # "\n"

RECURSIVE MatchPairs(_, _, _)
\* s starts with n fragments [a-z]_\{X\}, X a character of Sub
MatchPairs(s, n, Sub) ==
    IF n = 0 THEN TRUE
    ELSE /\ Len(s) >= 5
         /\ s[1] \in Letters /\ s[2] = "_" /\ s[3] = "{" /\ s[4] \in Sub /\ s[5] = "}"
         /\ MatchPairs(SubSeq(s, 6, Len(s)), n - 1, Sub)

(***************************************************************************)
(* MathExpressionPipeline: input detection and corruption checks           *)
(***************************************************************************)
\* detect_input_type with the LaTeX test put before the MathML test
DetectLatexFirst(raw) ==
    LET text == strip(raw)
    IN IF text = <<>> THEN "empty"
       ELSE IF \/ \E i \in 1..(Len(text) - 1) : text[i] = "\\" /\ text[i + 1] \in Letters
               \/ \E i \in 1..Len(text) : text[i] \in {"_", "^", "$"}
            THEN "latex"
       ELSE IF \E i \in 1..Len(text) : text[i] \in Tags THEN "mathml"
       ELSE "plain"

detect_input_type(raw) ==
    LET text == strip(raw)
    IN IF text = <<>> THEN "empty"
       ELSE IF \/ (Head(text) \in MathOpenTags \cup ErrorRoots
                    /\ \E i \in 1..Len(text) : text[i] = "</math>")
               \/ \E i \in 1..Len(text) : text[i] \in {"<mrow>", "<msub>", "<mi>", "<mo>"}
            THEN "mathml"
       ELSE IF \/ \E i \in 1..(Len(text) - 1) : text[i] = "\\" /\ text[i + 1] \in Letters
               \/ \E i \in 1..Len(text) : text[i] \in {"_", "^", "$"}
            THEN "latex"
       ELSE "plain"

_is_corrupted_mathml(mathml) ==
    IF mathml = <<>> \/ len(mathml) < 40 THEN FALSE
    ELSE \/ HasMiRun(mathml, 4)
         \/ HasShreddedWord(mathml)
         \/ (Count(mathml, "<mi>") + Count(mathml, "<mi />") > 12 /\ Count(mathml, "<mo>") < 2)
         \/ \E i \in 1..Len(mathml) :
               mathml[i] = "</msub>" /\ LStrip(SubSeq(mathml, i + 1, Len(mathml))) # <<>>
               /\ Head(LStrip(SubSeq(mathml, i + 1, Len(mathml)))) = "</msub>"
         \/ HasDoubleEscaped(mathml)
         \/ HasBackslashInTag(mathml)
         \/ \E i \in 1..Len(mathml) : MatchMiCommand(SubSeq(mathml, i, Len(mathml)))
         \/ \E i \in 1..Len(mathml) :
               mathml[i] = "<msub>" /\ MatchMiCommand(LStrip(SubSeq(mathml, i + 1, Len(mathml))))

_is_corrupted_latex(latex) ==
    IF latex = <<>> THEN FALSE
    ELSE \/ \E i \in 1..Len(latex) :
               latex[i] = "\\" /\ MatchPairs(SubSeq(latex, i + 1, Len(latex)), 2, Letters)
         \/ \E i \in 1..Len(latex) :
               latex[i] = "\\" /\ MatchPairs(SubSeq(latex, i + 1, Len(latex)), 3, Letters)
         \/ \E i \in 1..(Len(latex) - 1) :
               LET a == SubSeq(latex, i + 2, Len(latex))
                   b == IF LStrip(a) = <<>> THEN <<>> ELSE Tail(LStrip(a))
               IN /\ latex[i] = "\\" /\ latex[i + 1] \in Letters
                  /\ a # <<>> /\ Head(a) \in WS /\ LStrip(a) # <<>> /\ Head(LStrip(a)) \in Letters
                  /\ b # <<>> /\ Head(b) \in WS /\ LStrip(b) # <<>> /\ Head(LStrip(b)) \in Letters

\* the first component of the pair _detect_corruption_indicators returns
_detect_corruption_indicators(mathml) ==
    \/ HasMtextLatex(mathml)
    \/ HasMiRun(mathml, 4)
    \/ \E i \in 1..Len(mathml) : MatchPairs(SubSeq(mathml, i, Len(mathml)), 2, Alnum)
    \/ HasBackslashInTag(mathml)
    \/ HasDoubleEscaped(mathml)
    \/ HasShreddedWord(mathml)

(***************************************************************************)
(* mathml_recovery_pro: helpers of ultra_mathml_recover.                   *)
(* The texts that reach recovery in this model hold no "_", "{" or "(",    *)
(* and no letters but s, u, m, f.  The rewriting steps that need a         *)
(* subscript fragment x_{y} and whitespace (lines 312-331), a literal      *)
(* \left, \right or \mathrm, or one of the symbols ... != <= >= leave      *)
(* such texts unchanged and are not written out.                           *)
(***************************************************************************)
RECURSIVE EscapeAll(_)
\* html.escape(latex)
EscapeAll(s) == IF s = <<>> THEN <<>> ELSE <<escape(Head(s))>> \o EscapeAll(Tail(s))

RECURSIVE UnescapeAll(_)
\* html.unescape(text)
UnescapeAll(s) == IF s = <<>> THEN <<>> ELSE <<unescape(Head(s))>> \o UnescapeAll(Tail(s))

_wrap_as_mathml_from_latex(latex) ==
    <<MathNs, "<mrow>", "<mtext>">> \o EscapeAll(latex) \o <<"</mtext>", "</mrow>", "</math>">>

\* the position of the first token of s at or after i that lies in T, 0 if none
FirstIn(s, i, T) ==
    IF \E k \in i..Len(s) : s[k] \in T
    THEN CHOOSE k \in i..Len(s) : s[k] \in T /\ \A j \in i..(k - 1) : s[j] \notin T
    ELSE 0

\* group 1 of re.search(r'\$([^$]+)\$', s), or Fail
DollarPayload(s) ==
    LET starts == {i \in 1..Len(s) : /\ s[i] = "$"
                                     /\ i + 1 <= Len(s) /\ s[i + 1] # "$"
                                     /\ FirstIn(s, i + 1, {"$"}) # 0}
    IN IF starts = {} THEN Fail
       ELSE LET i == CHOOSE k \in starts : \A j \in starts : k <= j
            IN SubSeq(s, i + 1, FirstIn(s, i + 1, {"$"}) - 1)

\* group 1 of re.search of \\X(.+?)\\Y, X and Y the brackets ( ) or [ ], or Fail
BracketPayload(s, X, Y) ==
    LET ends(i) == {j \in (i + 3)..(Len(s) - 1) : s[j] = "\\" /\ s[j + 1] = Y}
        starts == {i \in 1..Len(s) : i + 1 <= Len(s) /\ s[i] = "\\" /\ s[i + 1] = X /\ ends(i) # {}}
    IN IF starts = {} THEN Fail
       ELSE LET i == CHOOSE k \in starts : \A j \in starts : k <= j
                e == CHOOSE k \in ends(i) : \A j \in ends(i) : k <= j
            IN SubSeq(s, i + 2, e - 1)

_force_extract_mtext_latex(mathml) ==
    LET opens == {i \in 1..Len(mathml) : /\ mathml[i] \in {"<mtext>", "<mtext />"}
                                         /\ FirstIn(mathml, i + 1, {"</mtext>"}) # 0}
    IN IF opens = {} THEN <<>>
       ELSE LET i == CHOOSE k \in opens : \A j \in opens : k <= j
                content == UnescapeAll(SubSeq(mathml, i + 1, FirstIn(mathml, i + 1, {"</mtext>"}) - 1))
            IN IF DollarPayload(content) # Fail THEN strip(DollarPayload(content))
               ELSE strip(content)

\* elements whose text extract_from_node collects
LeafTags == {"<mi>", "<mo>", "<mn>", "<mtext>"}

RECURSIVE LeafParts(_, _)
\* extract_from_node(root): the stripped, non-empty texts of the leaf elements
\* from position i on, in document order (no msub element occurs in the inputs)
LeafParts(s, i) ==
    IF i > Len(s) THEN <<>>
    ELSE LET txt == strip(IF s[i] = "<mo>" THEN UnescapeAll(ElementText(s, i)) ELSE ElementText(s, i))
         IN (IF s[i] \in LeafTags /\ txt # <<>> THEN <<txt>> ELSE <<>>) \o LeafParts(s, i + 1)

RECURSIVE JoinWith(_, _)
\* sep.join(parts)
JoinWith(parts, sep) ==
    IF parts = <<>> THEN <<>>
    ELSE IF Len(parts) = 1 THEN Head(parts)
    ELSE Head(parts) \o sep \o JoinWith(Tail(parts), sep)

RECURSIVE TagsToSpaces(_)
\* re.sub(r'<[^>]+>', ' ', mathml)
TagsToSpaces(s) ==
    IF s = <<>> THEN <<>>
    ELSE <<IF Head(s) \in Tags THEN " " ELSE Head(s)>> \o TagsToSpaces(Tail(s))

_extract_text_from_mathml(mathml) ==
    IF mathml = <<>> THEN <<>>
    ELSE LET root == FirstIn(mathml, 1, Tags)
             mtext == FirstIn(mathml, root + 1, {"<mtext>", "<mtext />"})
             parts == LeafParts(mathml, 1)
             naive == JoinSplit(TagsToSpaces(mathml))
         IN IF ~ParsesAsXml(mathml) THEN naive
            ELSE IF /\ HasXmlns(mathml[root]) /\ mtext # 0 /\ mathml[mtext] = "<mtext>"
                    /\ strip(ElementText(mathml, mtext)) # <<>>
                 THEN strip(ElementText(mathml, mtext))
            ELSE IF parts # <<>> THEN strip(JoinWith(parts, <<" ">>))
            ELSE naive

\* the text after \s+ and an optional backslash, or Fail when no whitespace leads
AfterGap(s) ==
    IF s = <<>> \/ Head(s) \notin WS THEN Fail
    ELSE LET a == LStrip(s) IN IF a # <<>> /\ Head(a) = "\\" THEN Tail(a) ELSE a

RECURSIVE GlueCommandLetters(_)
\* re.sub(r'\\([a-z])\s+\\?([a-z])\s+\\?([a-z])', r'\\\1\\\2\\\3', s)
GlueCommandLetters(s) ==
    IF s = <<>> THEN <<>>
    ELSE LET a == IF Len(s) >= 2 THEN AfterGap(SubSeq(s, 3, Len(s))) ELSE Fail
             b == IF a # Fail /\ a # <<>> /\ Head(a) \in Letters THEN AfterGap(Tail(a)) ELSE Fail
         IN IF /\ Len(s) >= 2 /\ s[1] = "\\" /\ s[2] \in Letters
               /\ b # Fail /\ b # <<>> /\ Head(b) \in Letters
            THEN <<"\\", s[2], "\\", Head(a), "\\", Head(b)>> \o GlueCommandLetters(Tail(b))
            ELSE <<Head(s)>> \o GlueCommandLetters(Tail(s))

\* [A-Za-z0-9_], the characters on the inner side of a \b
WordChars == Alnum \cup {"_"}

\* the first position at or after i that holds no whitespace (Len(s) + 1 if none)
FirstNonWs(s, i) ==
    IF \E k \in i..Len(s) : s[k] \notin WS
    THEN CHOOSE k \in i..Len(s) : s[k] \notin WS /\ \A j \in i..(k - 1) : s[j] \in WS
    ELSE Len(s) + 1

\* the position of the letter that \s+([a-zA-Z]) matches right after position i, 0 if none
NextSpaced(s, i) ==
    LET j == FirstNonWs(s, i + 1)
    IN IF j > i + 1 /\ j <= Len(s) /\ s[j] \in Letters THEN j ELSE 0

RECURSIVE SpacedRun(_, _)
\* the positions matched by the longest (?:\s+([a-zA-Z]))* right after position i
SpacedRun(s, i) ==
    IF NextSpaced(s, i) = 0 THEN <<>>
    ELSE <<NextSpaced(s, i)>> \o SpacedRun(s, NextSpaced(s, i))

RECURSIVE CollapseSpacedCommand(_, _)
\* re.sub(r'\\\s*([a-zA-Z])(?:\s+([a-zA-Z])){2,}', <backslash, group 1, last group 2>, s)
\* from position i on
CollapseSpacedCommand(s, i) ==
    IF i > Len(s) THEN <<>>
    ELSE LET k == FirstNonWs(s, i + 1)
             run == IF k <= Len(s) THEN SpacedRun(s, k) ELSE <<>>
         IN IF s[i] = "\\" /\ k <= Len(s) /\ s[k] \in Letters /\ Len(run) >= 2
            THEN <<"\\", s[k], s[run[Len(run)]]>> \o CollapseSpacedCommand(s, run[Len(run)] + 1)
            ELSE <<s[i]>> \o CollapseSpacedCommand(s, i + 1)

RECURSIVE SpacedEnd(_, _, _)
\* the position where word, its letters \s* apart, ends when it starts at
\* the first non-blank at or after i; 0 if it does not match there
SpacedEnd(s, i, word) ==
    LET k == FirstNonWs(s, i)
    IN IF k > Len(s) \/ s[k] # Head(word) THEN 0
       ELSE IF Len(word) = 1 THEN k
       ELSE SpacedEnd(s, k + 1, Tail(word))

RECURSIVE CollapseNamed(_, _, _)
\* re.subn(r'\\\s*f\s*r\s*a\s*c', r'\\frac', s) and its like for \sum, from position i on
CollapseNamed(s, i, word) ==
    IF i > Len(s) THEN <<>>
    ELSE IF s[i] = "\\" /\ SpacedEnd(s, i + 1, word) # 0
         THEN <<"\\">> \o word \o CollapseNamed(s, SpacedEnd(s, i + 1, word) + 1, word)
         ELSE <<s[i]>> \o CollapseNamed(s, i + 1, word)

(***************************************************************************)
(* The SHRED_REPAIR table and the loop that applies it (lines 43-134 and   *)
(* 338-349).  Every pattern of the table needs a subscript fragment x_{y}. *)
(* The texts with such fragments in this model hold no whitespace and no   *)
(* letters but a c d f i m n o p q r s t u x, so of the table only the     *)
(* entries for \sum, \frac, \Pr, \in, \ldots and \quad can match; they are *)
(* written out in the order of the dict, \s* matching nothing.             *)
(***************************************************************************)
\* the fragment a_{b}
Pair(a, b) == <<a, "_", "{", b, "}">>

\* plus: the pattern opens with \\+, else with \\?
ShredPattern(plus, lit, repl) == [plus |-> plus, lit |-> lit, repl |-> repl]

SHRED_REPAIR ==
    << ShredPattern(TRUE, Pair("s", "u") \o <<"m">>, <<"\\", "s", "u", "m">>),
       ShredPattern(FALSE, Pair("s", "u") \o <<"m">>, <<"\\", "s", "u", "m">>),
       ShredPattern(TRUE, Pair("f", "r") \o Pair("a", "c"), <<"\\", "f", "r", "a", "c">>),
       ShredPattern(FALSE, Pair("f", "r") \o Pair("a", "c"), <<"\\", "f", "r", "a", "c">>),
       ShredPattern(FALSE, Pair("p", "r"), <<"\\", "P", "r">>),
       ShredPattern(TRUE, Pair("i", "n"), <<"\\", "i", "n">>),
       ShredPattern(FALSE, Pair("i", "n"), <<"\\", "i", "n">>),
       ShredPattern(FALSE, Pair("d", "o") \o Pair("t", "s"), <<"\\", "l", "d", "o", "t", "s">>),
       ShredPattern(TRUE, Pair("q", "q") \o Pair("u", "a") \o <<"d">>, <<"\\", "q", "u", "a", "d">>),
       ShredPattern(FALSE, Pair("q", "q") \o Pair("u", "a") \o <<"d">>, <<"\\", "q", "u", "a", "d">>),
       ShredPattern(FALSE, Pair("q", "u") \o Pair("a", "d"), <<"\\", "q", "u", "a", "d">>) >>

\* s holds lit from position i on
LitAt(s, i, lit) == i + Len(lit) - 1 <= Len(s) /\ SubSeq(s, i, i + Len(lit) - 1) = lit

RECURSIVE BackslashRun(_, _)
\* how many backslashes stand in a row from position i on
BackslashRun(s, i) == IF i <= Len(s) /\ s[i] = "\\" THEN 1 + BackslashRun(s, i + 1) ELSE 0

\* the length of the match of pat at position i, 0 when there is none
MatchLen(pat, s, i) ==
    LET b == BackslashRun(s, i)
    IN IF pat.plus
       THEN (IF b >= 1 /\ LitAt(s, i + b, pat.lit) THEN b + Len(pat.lit) ELSE 0)
       ELSE IF b >= 1 THEN (IF LitAt(s, i + 1, pat.lit) THEN 1 + Len(pat.lit) ELSE 0)
       ELSE IF LitAt(s, i, pat.lit) THEN Len(pat.lit) ELSE 0

RECURSIVE SubN(_, _, _)
\* line 342: new, n = re.subn(pat, repl, s, flags=re.IGNORECASE), from position i on
SubN(pat, s, i) ==
    IF i > Len(s) THEN [text |-> <<>>, n |-> 0]
    ELSE IF MatchLen(pat, s, i) > 0
         THEN LET rest == SubN(pat, s, i + MatchLen(pat, s, i))
              IN [text |-> pat.repl \o rest.text, n |-> rest.n + 1]
         ELSE LET rest == SubN(pat, s, i + 1)
              IN [text |-> <<s[i]>> \o rest.text, n |-> rest.n]

RECURSIVE ShredPass(_, _, _, _, _)
\* lines 340-347: one pass over the table, from its k-th entry on; only the
\* first pass writes to the log
ShredPass(s, k, pass_num, log, changed) ==
    IF k > Len(SHRED_REPAIR) THEN [text |-> s, log |-> log, changed |-> changed]
    ELSE LET r == SubN(SHRED_REPAIR[k], s, 1)
         IN IF r.n > 0
            THEN ShredPass(r.text, k + 1, pass_num,
                           IF pass_num = 0
                           THEN Append(log, [msg |-> "repaired shredded pattern",
                                             pat |-> k, n |-> r.n])
                           ELSE log,
                           TRUE)
            ELSE ShredPass(s, k + 1, pass_num, log, changed)

\* line 338
max_passes == 3

RECURSIVE ShredLoop(_, _, _)
\* lines 339-349: for pass_num in range(max_passes), left early by the break
\* of a pass that changed nothing.  passes: the passes made; changed: the
\* last pass made still changed the text
ShredLoop(s, pass_num, log) ==
    IF pass_num >= max_passes
    THEN [text |-> s, passes |-> pass_num, changed |-> pass_num > 0, log |-> log]
    ELSE LET p == ShredPass(s, 1, pass_num, log, FALSE)
         IN IF ~p.changed
            THEN [text |-> s, passes |-> pass_num + 1, changed |-> FALSE, log |-> p.log]
            ELSE ShredLoop(p.text, pass_num + 1, p.log)

RECURSIVE CollapseQuads(_, _)
\* line 373: re.sub(r'\\quad(\s*\\quad)+', r'\\quad', s), from position i on
CollapseQuads(s, i) ==
    LET quad == <<"\\", "q", "u", "a", "d">>
    IN IF i > Len(s) THEN <<>>
       ELSE IF LitAt(s, i, quad) /\ LitAt(s, i + 5, quad)
            THEN CollapseQuads(SubSeq(s, 1, i + 4) \o SubSeq(s, i + 10, Len(s)), i)
       ELSE IF LitAt(s, i, quad) THEN quad \o CollapseQuads(s, i + 5)
       ELSE <<s[i]>> \o CollapseQuads(s, i + 1)

\* lines 305-390 with their log; the texts with subscript fragments hold no
\* whitespace, so the steps of lines 312-329 leave them as they are, and the
\* texts are short of the six \quad of line 376
AfterShredLoop(loop) ==
    [text |-> CollapseQuads(
                  CollapseNamed(
                      CollapseNamed(CollapseSpacedCommand(loop.text, 1), 1,
                                    <<"f", "r", "a", "c">>),
                      1, <<"s", "u", "m">>),
                  1),
     passes |-> loop.passes, changed |-> loop.changed, log |-> loop.log]

\* lines 305-390: line 333, the loop of lines 338-349, then lines 354-376
RepairShredded(tex) == AfterShredLoop(ShredLoop(GlueCommandLetters(tex), 0, <<>>))

_repair_shredded_commands(tex) == RepairShredded(tex).text

RECURSIVE PairRun(_, _)
\* how many fragments [A-Za-z]_\{[A-Za-z0-9]\} stand in a row from position i on
PairRun(s, i) ==
    IF i + 4 <= Len(s) /\ s[i] \in Letters /\ s[i + 1] = "_" /\ s[i + 2] = "{"
       /\ s[i + 3] \in Alnum /\ s[i + 4] = "}"
    THEN 1 + PairRun(s, i + 5) ELSE 0

\* lines 283-291, _merge_simple: \mathrm{ the letters, then the subscripts }
MergeSimple(s, i, n) ==
    <<"\\", "m", "a", "t", "h", "r", "m", "{">>
        \o [k \in 1..n |-> s[i + 5 * (k - 1)]] \o [k \in 1..n |-> s[i + 5 * (k - 1) + 3]]
        \o <<"}">>

RECURSIVE SimpleSub(_, _)
\* line 294: simple_pattern.sub(_merge_simple, cur), from position i on
SimpleSub(s, i) ==
    IF i > Len(s) THEN <<>>
    ELSE IF PairRun(s, i) >= 2
         THEN MergeSimple(s, i, PairRun(s, i)) \o SimpleSub(s, i + 5 * PairRun(s, i))
         ELSE <<s[i]>> \o SimpleSub(s, i + 1)

\* line 293: for _ in range(3)
collapse_passes == 3

RECURSIVE CollapseLoop(_, _, _)
\* lines 293-298
CollapseLoop(cur, pass_num, changed) ==
    IF pass_num >= collapse_passes
    THEN [text |-> cur, passes |-> pass_num, changed |-> changed, at_ceiling |-> changed]
    ELSE IF SimpleSub(cur, 1) = cur
         THEN [text |-> cur, passes |-> pass_num + 1, changed |-> changed, at_ceiling |-> FALSE]
         ELSE CollapseLoop(SimpleSub(cur, 1), pass_num + 1, TRUE)

\* lines 265-302, with the log
CollapseSubscripts(tex) ==
    LET loop == CollapseLoop(tex, 0, FALSE)
    IN [text |-> loop.text, passes |-> loop.passes, changed |-> loop.at_ceiling,
        log |-> IF loop.changed
                THEN <<[msg |-> "collapsed letter-by-letter subscript runs", pat |-> 0, n |-> 0]>>
                ELSE <<>>]

_collapse_letter_subscripts(tex) == CollapseSubscripts(tex).text

\* s.replace(NBSP, ' '), re.sub(r'\s+', ' ', s).strip()
_repair_common_ocr_symbols(tex) == JoinSplit(tex)

RECURSIVE JoinSpacedFrom(_, _)
\* re.sub(r'\b([A-Za-z])(?:\s+([A-Za-z])){2,}\b', <group 1, last group 2>, s)
\* from position i on; the closing \b may cost the match its last letter
JoinSpacedFrom(s, i) ==
    IF i > Len(s) THEN <<>>
    ELSE LET run == SpacedRun(s, i)
             last == IF run = <<>> THEN i ELSE run[Len(run)]
             n == IF last = Len(s) \/ s[last + 1] \notin WordChars
                  THEN Len(run) ELSE Len(run) - 1
         IN IF s[i] \in Letters /\ (i = 1 \/ s[i - 1] \notin WordChars) /\ n >= 2
            THEN <<s[i], s[run[n]]>> \o JoinSpacedFrom(s, run[n] + 1)
            ELSE <<s[i]>> \o JoinSpacedFrom(s, i + 1)

_join_spaced_letters(s) == JoinSpacedFrom(s, 1)

\* step 5 of ultra_mathml_recover: append the missing closers, or prepend
\* the missing openers, of one bracket pair
BalancePair(candidate, open, close) ==
    LET o == Count(candidate, open)
        c == Count(candidate, close)
    IN IF o > c THEN candidate \o Repeat(close, o - c)
       ELSE IF c > o THEN Repeat(open, c - o) \o candidate
       ELSE candidate

RECURSIVE RStripChar(_, _)
\* str.rstrip(c)
RStripChar(s, c) ==
    IF s # <<>> /\ s[Len(s)] = c THEN RStripChar(SubSeq(s, 1, Len(s) - 1), c) ELSE s

\* lines 677-696: candidate after the brace and the parenthesis balancing
BalanceCandidate(candidate) ==
    RStripChar(strip(BalancePair(BalancePair(candidate, "{", "}"), "(", ")")), ",")

\* the positions of the four letters of \\\s*([a-zA-Z])\s*([a-zA-Z])\s*([a-zA-Z])\s*([a-zA-Z])
\* for a backslash at i, << >> if it does not match
FourLetters(s, i) ==
    LET a == FirstNonWs(s, i + 1)
        b == FirstNonWs(s, a + 1)
        c == FirstNonWs(s, b + 1)
        d == FirstNonWs(s, c + 1)
    IN IF d <= Len(s) /\ {s[a], s[b], s[c], s[d]} \subseteq Letters
       THEN <<a, b, c, d>> ELSE <<>>

RECURSIVE SecondPass(_, _)
\* re.subn(that pattern, r'\\\1\2\3\4', s)[0], from position i on
SecondPass(s, i) ==
    IF i > Len(s) THEN <<>>
    ELSE LET m == IF s[i] = "\\" THEN FourLetters(s, i) ELSE <<>>
         IN IF m # <<>>
            THEN <<"\\", s[m[1]], s[m[2]], s[m[3]], s[m[4]]>> \o SecondPass(s, m[4] + 1)
            ELSE <<s[i]>> \o SecondPass(s, i + 1)

\* the n of that re.subn is not 0
SecondPassMatches(s) == \E i \in 1..Len(s) : s[i] = "\\" /\ FourLetters(s, i) # <<>>

RECURSIVE ThirdPass(_, _)
\* re.sub(r'\\\s+([a-zA-Z]+)', r'\\\1', s), from position i on
ThirdPass(s, i) ==
    IF i > Len(s) THEN <<>>
    ELSE LET k == FirstNonWs(s, i + 1)
         IN IF s[i] = "\\" /\ k > i + 1 /\ k <= Len(s) /\ s[k] \in Letters
            THEN <<"\\">> \o ThirdPass(s, k)
            ELSE <<s[i]>> \o ThirdPass(s, i + 1)

(***************************************************************************)
(* The external compiler latex2mathml.converter.convert.  Whether it       *)
(* raises on a text is the environment's choice; when it does not, it      *)
(* writes one leaf per command or character inside <math><mrow>.           *)
(***************************************************************************)
RECURSIVE LetterRun(_)
\* the longest run of letters at the start of s
LetterRun(s) ==
    IF s # <<>> /\ Head(s) \in Letters THEN <<Head(s)>> \o LetterRun(Tail(s)) ELSE <<>>

RECURSIVE RenderLeaves(_)
RenderLeaves(s) ==
    IF s = <<>> THEN <<>>
    ELSE IF Head(s) \in WS THEN RenderLeaves(Tail(s))
    ELSE IF Head(s) = "\\" /\ LetterRun(Tail(s)) # <<>>
         THEN <<"<mi>", "\\">> \o LetterRun(Tail(s)) \o <<"</mi>">>
              \o RenderLeaves(SubSeq(s, 2 + Len(LetterRun(Tail(s))), Len(s)))
    ELSE <<"<mi>", escape(Head(s)), "</mi>">> \o RenderLeaves(Tail(s))

latex2mathml_convert(latex) ==
    <<MathInline, "<mrow>">> \o RenderLeaves(latex) \o <<"</mrow>", "</math>">>

(***************************************************************************)
(* ultra_mathml_recover.  Confidence is counted in thousandths.            *)
(***************************************************************************)
\* pipeline.py imports LatexToMathML, which imports latex2mathml
\* unconditionally: where the pipeline runs, the flag is set
HAS_LATEX2MATHML == TRUE

\* ok: the compiler does not raise on this text
_try_latex_to_mathml(latex, ok) ==
    IF latex = <<>> THEN [mathml |-> <<>>, conf |-> 0, called |-> FALSE]
    ELSE IF ~HAS_LATEX2MATHML THEN [mathml |-> <<>>, conf |-> 0, called |-> FALSE]
    ELSE IF ok THEN [mathml |-> latex2mathml_convert(latex), conf |-> 900, called |-> TRUE]
    ELSE [mathml |-> <<>>, conf |-> 0, called |-> TRUE]

\* re.search(r'\\[A-Za-z]', s)
HasCommand(s) == \E i \in 1..(Len(s) - 1) : s[i] = "\\" /\ s[i + 1] \in Letters

\* lines 607-627: the payload and the confidence it earns
PayloadIn(payload) ==
    IF DollarPayload(payload) # Fail
    THEN [text |-> strip(DollarPayload(payload)), conf |-> 50]
    ELSE IF BracketPayload(payload, "(", ")") # Fail
    THEN [text |-> strip(BracketPayload(payload, "(", ")")), conf |-> 50]
    ELSE IF BracketPayload(payload, "[", "]") # Fail
    THEN [text |-> strip(BracketPayload(payload, "[", "]")), conf |-> 50]
    ELSE [text |-> payload, conf |-> 0]

\* line 607: payload = _extract_text_from_mathml(s)
PayloadOf(raw) == PayloadIn(_extract_text_from_mathml(raw))

\* lines 630-696: the repair steps, in order
RepairCandidate(payload) ==
    BalanceCandidate(_join_spaced_letters(_repair_common_ocr_symbols(
        _repair_shredded_commands(payload))))

\* lines 558-572 and 607-696: what is known before the first attempt
PreparedWith(raw, in_mtext, pl, c1) ==
    [candidate |-> c1,
     conf |-> (IF in_mtext /\ _force_extract_mtext_latex(raw) # <<>> THEN 100 ELSE 0)
              + pl.conf + (IF HasCommand(c1) THEN 150 ELSE 50),
     log |-> <<IF _detect_corruption_indicators(raw) THEN "[FORCE] corruption detected"
               ELSE "[FORCE] no obvious corruption indicators, but checking anyway">>
             \o (IF in_mtext
                 THEN <<"[FORCE] detected LaTeX in <mtext> - extracting and repairing">>
                 ELSE <<>>)]

\* pl: the payload; the candidate is the repaired payload
PreparedPayload(raw, pl) ==
    PreparedWith(raw,
                 (\E i \in 1..Len(raw) : raw[i] \in {"<mtext>", "<mtext />"}) /\ HasCommand(raw),
                 pl, RepairCandidate(pl.text))

Prepared(raw) == PreparedPayload(raw, PayloadOf(raw))

\* one call of _try_latex_to_mathml on candidate c after the attempts prev;
\* a text the compiler rejected once it rejects again.  Each attempt is
\* recorded with the confidence the run has after it
Attempt(prev, c, ok) ==
    LET r == _try_latex_to_mathml(c, ok /\ c \notin prev.tried)
    IN [latex |-> c, mathml |-> r.mathml, conf |-> prev.conf + r.conf,
        attempts |-> prev.attempts
                     \o (IF r.called
                         THEN <<[text |-> c, ok |-> r.mathml # <<>>, conf |-> prev.conf + r.conf]>>
                         ELSE <<>>),
        tried |-> prev.tried \cup {c}]

\* lines 711-714: the first attempt
FirstAttempt(p, ok) ==
    Attempt([conf |-> p.conf, attempts |-> <<>>, tried |-> {}], p.candidate, ok)

\* lines 716-727: the second pass, when the first attempt gave nothing and
\* the candidate still shows four spaced letters
SecondAttempt(a, ok) ==
    IF a.mathml = <<>> /\ SecondPassMatches(a.latex)
    THEN Attempt(a, SecondPass(a.latex, 1), ok) ELSE a

\* lines 729-736: the third pass
ThirdAttempt(a, ok) ==
    IF a.mathml = <<>> THEN Attempt(a, ThirdPass(a.latex, 1), ok) ELSE a

\* Recovered without the clamp of lines 770-772
RecoveredUnclamped(p, a, use_openai_fallback) ==
    [raised |-> a.mathml = <<>> /\ use_openai_fallback,
     latex |-> a.latex,
     mathml |-> IF a.mathml # <<>> THEN a.mathml
                ELSE IF use_openai_fallback THEN <<>>
                ELSE _wrap_as_mathml_from_latex(a.latex),
     confidence |-> IF a.mathml = <<>> /\ ~use_openai_fallback THEN a.conf + 50 ELSE a.conf,
     log |-> p.log,
     attempts |-> a.attempts]

\* lines 739-792: the OpenAI fallback, the <mtext> wrapper, the result.
\* Line 739 reads HAS_OPENAI and OpenAIMathMLConverter, names the module
\* never binds: NameError (raised = TRUE)
Recovered(p, a, use_openai_fallback) ==
    LET log == p.log \o [k \in 1..Len(a.attempts) |->
                            IF a.attempts[k].ok THEN "latex2mathml conversion succeeded"
                            ELSE "latex2mathml conversion failed"]
        conf == IF a.mathml = <<>> THEN a.conf + 50 ELSE a.conf
    IN IF a.mathml = <<>> /\ use_openai_fallback
       THEN [raised |-> TRUE, latex |-> a.latex, mathml |-> <<>>, confidence |-> a.conf,
             log |-> log, attempts |-> a.attempts]
       ELSE [raised |-> FALSE,
             latex |-> a.latex,
             mathml |-> IF a.mathml = <<>> THEN _wrap_as_mathml_from_latex(a.latex)
                        ELSE a.mathml,
             confidence |-> IF conf > 1000 THEN 1000 ELSE conf,
             log |-> IF a.mathml = <<>>
                     THEN log \o <<"[FORCE] all conversion attempts failed, using safe <mtext> wrapper">>
                     ELSE log,
             attempts |-> a.attempts]

\* lines 711-792: the attempts on what was prepared, and the result
RecoverPrepared(p, use_openai_fallback, oc) ==
    Recovered(p, ThirdAttempt(SecondAttempt(FirstAttempt(p, oc[1]), oc[2]), oc[3]),
              use_openai_fallback)

\* oc[k]: the compiler accepts the text of the k-th attempt.  The result
\* carries raised = TRUE when the function ends in an exception, and the
\* compiler calls it made
ultra_mathml_recover(corrupted_mathml, use_openai_fallback, oc) ==
    IF strip(corrupted_mathml) = <<>>
    THEN [raised |-> FALSE, latex |-> <<>>, mathml |-> <<>>, confidence |-> 0,
          log |-> <<"[FORCE] empty input">>, attempts |-> <<>>]
    ELSE RecoverPrepared(Prepared(strip(corrupted_mathml)), use_openai_fallback, oc)

(***************************************************************************)
(* OCRMathMLCleaner.  services/ocr/ocr_mathml_cleaner.py is imported by    *)
(* pipeline.py:22 and is not among the sources; clean() follows the        *)
(* specification's Lexical Cleaner: it strips OCR noise glyphs, normalizes *)
(* Unicode and canonicalizes whitespace.  Whether it raises is the         *)
(* environment's choice.                                                   *)
(***************************************************************************)
NoiseGlyphs == {"EURO", "BULLET"}

clean(text) == JoinSplit(RemoveAll(_normalize_unicode(text), NoiseGlyphs))

(***************************************************************************)
(* LatexToMathML.convert, the single-line path.  The texts of this model   *)
(* hold no \begin, \\, \cr, \left, \right or \displaystyle, no label       *)
(* "(..)" at their start and no operator character, so the array, matrix,  *)
(* multi-line and label paths, _fix_corrupted_latex_commands and           *)
(* _normalize_operator_tags leave them alone and are not written out.      *)
(***************************************************************************)
\* lines 1447-1451: one level of outer double braces is taken off
_normalize_pix2tex_noise(text) ==
    IF Len(text) >= 4 /\ SubSeq(text, 1, 2) = <<"{", "{">>
       /\ SubSeq(text, Len(text) - 1, Len(text)) = <<"}", "}">>
    THEN LET inner == SubSeq(text, 3, Len(text) - 2)
         IN IF inner # <<>> /\ Count(inner, "{") = Count(inner, "}")
            THEN (IF Head(inner) = "\\" THEN inner ELSE <<"{">> \o inner \o <<"}">>)
            ELSE text
    ELSE text

\* lines 43-47: more openers than closers, and the text ends with an opener
Truncated(latex) ==
    /\ Count(latex, "{") > Count(latex, "}")
    /\ RStrip(latex) # <<>> /\ RStrip(latex)[Len(RStrip(latex))] = "{"

\* lines 57-59: the repair limit of convert
MaxBraceRepair == 3

RepairBraces(latex) ==
    LET brace_diff == Count(latex, "{") - Count(latex, "}")
    IN IF 0 < brace_diff /\ brace_diff <= MaxBraceRepair
       THEN latex \o Repeat("}", brace_diff) ELSE latex

\* lines 163-169: the root has the namespace already, and the expression
\* meant to drop a second declaration drops the only one
_ensure_namespace(mathml) ==
    [i \in 1..Len(mathml) |->
        IF mathml[i] = MathInline THEN MathInlineBare
        ELSE IF mathml[i] = MathNs THEN MathPlain ELSE mathml[i]]

\* lines 210-213, 236-237: the text of the leaf that opens s is a command
IsCommandLeaf(s) ==
    /\ Head(s) \in {"<mi>", "<mtext>"}
    /\ Len(strip(ElementText(s, 1))) > 1
    /\ Head(strip(ElementText(s, 1))) = "\\"

RECURSIVE ClearCommands(_)
\* lines 203-240: el.text = "" for every such leaf; an element without text
\* is written as an empty tag
ClearCommands(s) ==
    IF s = <<>> THEN <<>>
    ELSE IF IsCommandLeaf(s)
         THEN <<IF Head(s) = "<mi>" THEN "<mi />" ELSE "<mtext />">>
              \o ClearCommands(SubSeq(s, Len(TextBeforeTag(Tail(s))) + 3, Len(s)))
         ELSE <<Head(s)>> \o ClearCommands(Tail(s))

RECURSIVE Indent(_, _)
\* lines 303-308: ET.indent(root, space="  ") and ET.tostring; depth counts
\* the open elements
Indent(s, depth) ==
    IF s = <<>> THEN <<>>
    ELSE LET t == Head(s)
             leaf == t \in {"<mi>", "<mo>", "<mn>", "<mtext>"}
             line(d) == IF d = 0 THEN <<>> ELSE <<"\n">> \o Repeat(" ", 2 * d)
         IN IF leaf
            THEN line(depth) \o SubSeq(s, 1, Len(TextBeforeTag(Tail(s))) + 2)
                 \o Indent(SubSeq(s, Len(TextBeforeTag(Tail(s))) + 3, Len(s)), depth)
            ELSE IF t \in EmptyTags THEN line(depth) \o <<t>> \o Indent(Tail(s), depth)
            ELSE IF t \in OpenTags
            THEN line(depth) \o <<t>>
                 \o (IF Len(s) > 1 /\ s[2] \in CloseTags
                     THEN <<s[2]>> \o Indent(SubSeq(s, 3, Len(s)), depth)
                     ELSE Indent(Tail(s), depth + 1))
            ELSE IF t \in CloseTags
            THEN <<"\n">> \o Repeat(" ", 2 * (depth - 1)) \o <<t>> \o Indent(Tail(s), depth - 1)
            ELSE Indent(Tail(s), depth)

_clean_invalid_mathml(mathml) ==
    IF ClearCommands(mathml) = mathml THEN mathml
    ELSE LET out == Indent(ClearCommands(mathml), 0)
         IN IF out # <<>> /\ Head(out) = "\n" THEN Tail(out) ELSE out

\* ok: the external compiler does not raise.  raised: convert ends in
\* ValueError (lines 49 and 152)
convert(latex, ok) ==
    IF strip(latex) = <<>>
    THEN [raised |-> FALSE, mathml |-> <<MathBlock, "</math>">>]
    ELSE LET s0 == strip(latex)
             s1 == IF Head(s0) = "$" /\ s0[Len(s0)] = "$"
                   THEN strip(SubSeq(s0, 2, Len(s0) - 1)) ELSE s0
             s2 == _normalize_pix2tex_noise(s1)
             latex_normalized == JoinSplit(RepairBraces(s2))
         IN IF Truncated(s2) \/ ~ok
            THEN [raised |-> TRUE, mathml |-> <<>>]
            ELSE [raised |-> FALSE,
                  mathml |-> _clean_invalid_mathml(_ensure_namespace(
                                 latex2mathml_convert(latex_normalized)))]

(***************************************************************************)
(* MathExpressionPipeline: the helpers of ingest                           *)
(***************************************************************************)
\* the value of a text field that is None
NoneText == <<"<None>">>
\* the recovery_confidence of a result built without one (the key is
\* absent from the TypedDict); confidences are thousandths
Absent == -1

PipelineResult(source_type, latex, mathml, intermediate_mathml, raw_input, conf, log) ==
    [source_type |-> source_type, clean_latex |-> latex, mathml |-> mathml,
     intermediate_mathml |-> intermediate_mathml, raw_input |-> raw_input,
     recovery_confidence |-> conf, recovery_log |-> log]

\* the value of result while ingest has not returned
NoResult == PipelineResult("", <<>>, <<>>, NoneText, <<>>, Absent, <<>>)

\* a variant of _safe_latex_to_mathml that falls back to the <mtext> wrapper
\* around the LaTeX when the converter raises
SafeLatexWrapsText(latex, ok) ==
    IF convert(latex, ok).raised THEN _wrap_as_mathml_from_latex(latex)
    ELSE convert(latex, ok).mathml

_safe_latex_to_mathml(latex, ok) ==
    IF convert(latex, ok).raised THEN <<ErrConversionFailed>> ELSE convert(latex, ok).mathml

\* a variant of FromRecovery that hands the text it was given back when the
\* recovery module raises
FromRecoveryKeepsInput(raw_mathml, out) ==
    IF out.raised
    THEN PipelineResult("mathml", <<>>, raw_mathml, raw_mathml, raw_mathml, 0,
                        <<"ULTRA crash">>)
    ELSE IF out.mathml # <<>>
    THEN PipelineResult("mathml", out.latex, out.mathml, raw_mathml, raw_mathml,
                        out.confidence, out.log)
    ELSE PipelineResult("mathml", out.latex, <<ErrRecoveryFailed>>, raw_mathml,
                        raw_mathml, out.confidence, out.log)

\* a variant of FromRecovery that keeps the recovered MathML and leaves the
\* recovered LaTeX out
FromRecoveryDropsLatex(raw_mathml, out) ==
    IF out.raised
    THEN PipelineResult("mathml", <<>>, <<ErrUltraCrash>>, raw_mathml, raw_mathml, 0,
                        <<"ULTRA crash">>)
    ELSE IF out.mathml # <<>>
    THEN PipelineResult("mathml", <<>>, out.mathml, raw_mathml, raw_mathml,
                        out.confidence, out.log)
    ELSE PipelineResult("mathml", out.latex, <<ErrRecoveryFailed>>, raw_mathml,
                        raw_mathml, out.confidence, out.log)

\* lines 181-220: the result built from what the recovery module returned
FromRecovery(raw_mathml, out) ==
    IF out.raised
    THEN PipelineResult("mathml", <<>>, <<ErrUltraCrash>>, raw_mathml, raw_mathml, 0,
                        <<"ULTRA crash">>)
    ELSE IF out.mathml # <<>>
    THEN PipelineResult("mathml", out.latex, out.mathml, raw_mathml, raw_mathml,
                        out.confidence, out.log)
    ELSE PipelineResult("mathml", out.latex, <<ErrRecoveryFailed>>, raw_mathml,
                        raw_mathml, out.confidence, out.log)

\* available: recover_from_mathml is not None; has_key: settings.openai_api_key
\* is not None; oc: what the compiler does in ultra_mathml_recover
_recover_mathml(raw_mathml, available, has_key, oc) ==
    IF ~available
    THEN PipelineResult("mathml", <<>>, <<ErrUltraMissing>>, raw_mathml, raw_mathml, 0,
                        <<"FORCE ULTRA recovery module not installed">>)
    ELSE FromRecovery(raw_mathml, ultra_mathml_recover(raw_mathml, has_key, oc))

\* the components that failed in a call of the recovery module
FailuresOf(out) ==
    (IF out.raised THEN {"recovery"} ELSE {})
    \cup (IF \E k \in 1..Len(out.attempts) : ~out.attempts[k].ok THEN {"compiler"} ELSE {})

\* the components that failed while _recover_mathml ran
RecoverFailures(available, out) == IF ~available THEN {"recovery"} ELSE FailuresOf(out)

\* what OpenAIMathMLConverter answers: the constructor raises, the API call
\* fails (convert_latex_to_mathml returns the text it was given with
\* confidence 0), or a rewritten text comes back with a confidence
OpenAIReplies ==
    { [kind |-> k, latex |-> <<>>, confidence |-> 0] : k \in {"init_error", "api_error"} }
    \cup { [kind |-> "ok", latex |-> t, confidence |-> c] :
             t \in { <<"\\", "f", "r", "a", "c">>, <<"x">> }, c \in {300, 900} }

_try_openai_latex_cleanup(corrupted_latex, has_key, reply) ==
    IF ~has_key THEN corrupted_latex
    ELSE IF reply.kind = "init_error" THEN corrupted_latex
    ELSE LET cleaned == IF reply.kind = "ok" THEN reply.latex ELSE corrupted_latex
             confidence == IF reply.kind = "ok" THEN reply.confidence ELSE 0
         IN IF cleaned # corrupted_latex /\ confidence > 500 THEN cleaned ELSE corrupted_latex

(***************************************************************************)
(* Inputs of ingest: texts assembled from a few fragments                  *)
(***************************************************************************)
RECURSIVE Flatten(_)
Flatten(ss) == IF ss = <<>> THEN <<>> ELSE Head(ss) \o Flatten(Tail(ss))

BodyChunks ==
    { <<"<mi>", "s", "</mi>", "<mi>", "u", "</mi>">>, <<"<mi>", "m", "</mi>">>,
      <<"<mtext>", "\\", "f", "</mtext>">>, <<"<mrow>">>, <<"</mrow>">>, <<"EURO">> }

LatexChunks ==
    { <<"\\", "f", "_", "{", "r", "}">>, <<"f", "_", "{", "r", "}">>,
      <<"a", "_", "{", "c", "}">>, <<"x">>, <<"{">>, <<"$">>, <<" ">> }

\* a body after an unclosed <mrow>, or inside a <math> root with or without
\* the namespace
MathmlInputs ==
    LET bodies == {Flatten(b) : b \in SeqsUpTo(BodyChunks, MaxBody)}
    IN {<<"<mrow>">> \o b : b \in bodies}
         \cup {<<MathPlain>> \o b \o <<"</math>">> : b \in bodies}
         \cup {<<MathNs>> \o b \o <<"</math>">> : b \in bodies}

LatexInputs == {Flatten(b) : b \in SeqsUpTo(LatexChunks, MaxLatex)}

Inputs == MathmlInputs \cup LatexInputs

\* the value of recovery_out while recover_from_mathml has not been called
NotCalled ==
    [raised |-> FALSE, latex |-> <<>>, mathml |-> <<>>, confidence |-> 0, log |-> <<>>,
     attempts |-> <<>>]

(***************************************************************************)
(* LatexToMathML.convert on a block of rows.  The block texts of the model *)
(* hold letters, "&", spaces and row breaks: no brace, no command, no      *)
(* parenthesis and no environment, so no array is unwrapped (lines 62-82), *)
(* the text is no matrix equation (lines 85-86), no label is found and     *)
(* the brace and delimiter repairs have nothing to repair.                 *)
(***************************************************************************)
RECURSIVE CountBreaks(_)
\* latex.count("\\\\")
CountBreaks(s) ==
    IF Len(s) < 2 THEN 0
    ELSE IF s[1] = "\\" /\ s[2] = "\\" THEN 1 + CountBreaks(SubSeq(s, 3, Len(s)))
    ELSE CountBreaks(Tail(s))

\* lines 411-454: without an environment, more than one row break
_is_multiline_equation(latex) == CountBreaks(latex) > 1

RECURSIVE SplitBreaks(_, _)
\* re.split(r'\\\\|\n|\r\n|\r', s); cur is the piece being read
SplitBreaks(s, cur) ==
    IF s = <<>> THEN <<cur>>
    ELSE IF Len(s) >= 2 /\ s[1] = "\\" /\ s[2] = "\\"
         THEN <<cur>> \o SplitBreaks(SubSeq(s, 3, Len(s)), <<>>)
    ELSE IF Head(s) = "\n" THEN <<cur>> \o SplitBreaks(Tail(s), <<>>)
    ELSE SplitBreaks(Tail(s), Append(cur, Head(s)))

\* lines 741-787: what one piece adds to lines.  An empty piece is kept as
\* an empty line; a piece that "&" alone filled is not kept at all
ParsedLine(piece) ==
    LET line == strip(piece)
        unaligned == strip(RemoveAll(line, {"&"}))
    IN IF line = <<>> THEN << <<>> >>
       ELSE IF unaligned = <<>> THEN <<>> ELSE <<unaligned>>

RECURSIVE ParsedLines(_)
ParsedLines(pieces) ==
    IF pieces = <<>> THEN <<>>
    ELSE ParsedLine(Head(pieces)) \o ParsedLines(Tail(pieces))

\* the "latex" entries of the lines; every "label" is None
_parse_multiline_latex(latex) ==
    IF CountBreaks(latex) > 0 \/ Count(latex, "\n") > 0
    THEN ParsedLines(SplitBreaks(latex, <<>>)) ELSE <<>>

\* lines 1553-1564: closing braces for the braces a line ends with
CloseTrailingBraces(repaired, brace_diff) ==
    IF brace_diff > 0 /\ brace_diff <= 3 /\ repaired # <<>> /\ repaired[Len(repaired)] = "{"
    THEN repaired \o [k \in 1..brace_diff |-> "}"]
    ELSE repaired

RECURSIVE DropLeading(_, _)
DropLeading(s, c) == IF s # <<>> /\ Head(s) = c THEN DropLeading(Tail(s), c) ELSE s

\* lines 1568-1573: re.sub(r'^\s*\}+', '', repaired, count=abs(brace_diff))
DropLeadingBraces(repaired, brace_diff) ==
    IF brace_diff < 0 /\ -brace_diff <= 2 /\ repaired # <<>> /\ Head(repaired) = "}"
    THEN DropLeading(repaired, "}")
    ELSE repaired

\* line 1583: the characters of the class [\\{[(|.]
LeftDelimiters == {"\\", "{", "[", "(", "|", "."}

RECURSIVE left_matches(_, _)
\* line 1583: list(re.finditer(r'\\left([\\{[(|.])', repaired)), group 1 of
\* each match, from position i on
left_matches(repaired, i) ==
    IF i >= Len(repaired) THEN <<>>
    ELSE IF repaired[i] = "\\left" /\ repaired[i + 1] \in LeftDelimiters
         THEN <<repaired[i + 1]>> \o left_matches(repaired, i + 2)
         ELSE left_matches(repaired, i + 1)

\* lines 1595-1603: delimiter_map.get(delimiter, '}'); the key '\\{' has two
\* characters and group 1 only ever one
delimiter_map(delimiter) ==
    IF delimiter = "{" THEN "}"
    ELSE IF delimiter = "[" THEN "]"
    ELSE IF delimiter = "(" THEN ")"
    ELSE IF delimiter = "|" THEN "|"
    ELSE IF delimiter = "." THEN "."
    ELSE "}"

RECURSIVE closing_sequence(_)
\* lines 1591-1604, for the openers in reverse
closing_sequence(unmatched_lefts) ==
    IF unmatched_lefts = <<>> THEN <<>>
    ELSE <<"\\right", delimiter_map(unmatched_lefts[Len(unmatched_lefts)])>>
           \o closing_sequence(SubSeq(unmatched_lefts, 1, Len(unmatched_lefts) - 1))

\* lines 1576-1608
CloseLefts(repaired) ==
    LET left_count == Count(repaired, "\\left")
        right_count == Count(repaired, "\\right")
        matches == left_matches(repaired, 1)
        unmatched_count == left_count - right_count
        unmatched_lefts == IF Len(matches) >= unmatched_count
                           THEN SubSeq(matches, Len(matches) - unmatched_count + 1, Len(matches))
                           ELSE matches
    IN IF left_count > right_count /\ left_count - right_count <= 3 /\ matches # <<>>
       THEN repaired \o closing_sequence(unmatched_lefts)
       ELSE repaired

\* line 1621: re.sub(r'\}\s*\}\s*\}\s*$', '}}', repaired)
TripleToDouble(s) ==
    IF Len(s) >= 3 /\ SubSeq(s, Len(s) - 2, Len(s)) = <<"}", "}", "}">>
    THEN SubSeq(s, 1, Len(s) - 1) ELSE s

\* line 1622: re.sub(r'\\right\}\s*\\right\}\s*$', '\\right}', repaired); in
\* the replacement re.sub reads \r as a carriage return
DoubleRight(s) ==
    IF Len(s) >= 4 /\ SubSeq(s, Len(s) - 3, Len(s)) = <<"\\right", "}", "\\right", "}">>
    THEN SubSeq(s, 1, Len(s) - 4) \o <<"CR", "i", "g", "h", "t", "}">>
    ELSE s

\* lines 1531-1624.  The lines of this model hold no command but \left and
\* \right, one token each, so _fix_corrupted_latex_commands (line 1550) and
\* the removal of cut-off commands at the end (lines 1612-1617) leave them
\* as they are
_repair_latex_line(latex) ==
    IF latex = <<>> THEN latex
    ELSE LET brace_diff == Count(latex, "{") - Count(latex, "}")
             braced == DropLeadingBraces(CloseTrailingBraces(latex, brace_diff), brace_diff)
         IN strip(DoubleRight(TripleToDouble(CloseLefts(braced))))

\* lines 1704-1761; ok: the compiler does not raise
_convert_single_line(latex, ok) ==
    IF ~ok THEN [raised |-> TRUE, mathml |-> <<>>]
    ELSE [raised |-> FALSE,
          mathml |-> _clean_invalid_mathml(_ensure_namespace(
                         latex2mathml_convert(JoinSplit(latex))))]

\* lines 613-617: the row of a line that did not compile
Placeholder == <<"<mi>", "ELLIPSIS", "</mi>">>

\* lines 555-563, 606-618: list(line_root), the children of the root of the
\* compiled line, or of the placeholder
LineChildren(line_latex, ok) ==
    IF ok
    THEN LET line_mathml == _clean_invalid_mathml(latex2mathml_convert(line_latex))
         IN SubSeq(line_mathml, 2, Len(line_mathml) - 1)
    ELSE Placeholder

\* lines 637-667: the label cell, empty without a label, and the content cell
TableRow(children) == <<"<mtr>", "<mtd />", "<mtd>">> \o children \o <<"</mtd>", "</mtr>">>

RECURSIVE TableRows(_, _, _, _)
\* lines 499-667: the loop over the lines; oks[call] is the outcome of the
\* next call of the compiler.  An empty line is skipped (lines 505-507)
TableRows(lines, idx, oks, call) ==
    IF idx > Len(lines) THEN <<>>
    ELSE IF lines[idx] = <<>> THEN TableRows(lines, idx + 1, oks, call)
    ELSE TableRow(LineChildren(lines[idx], oks[call]))
         \o TableRows(lines, idx + 1, oks, call + 1)

\* lines 456-696.  The children of a compiled line carry the namespace, and
\* the serializer declares it beside the xmlns attribute the root was built
\* with (line 495).  Without lines the text goes to _convert_single_line,
\* and again from the handler when that raised (lines 466-468, 694-696)
_convert_multiline(text, oks) ==
    LET latex == _repair_latex_line(text)
        lines == _parse_multiline_latex(latex)
        rows == TableRows(lines, 1, oks, 1)
        compiled == Contains(rows, <<"<mrow>">>)
    IN IF lines = <<>>
       THEN _convert_single_line(latex, oks[1] \/ oks[2])
       ELSE IF rows = <<>>
       THEN [raised |-> FALSE, mathml |-> <<MathBlock, "</math>">>]
       ELSE [raised |-> FALSE,
             mathml |-> Indent(<<IF compiled THEN MathBlockTwice ELSE MathBlock, Mtable>>
                               \o rows \o <<"</mtable>", "</math>">>, 0)]

\* lines 26-152: convert with its choice of path; oks[k] is the outcome of
\* the k-th call of the compiler
convert_paths(latex, oks) ==
    LET s0 == strip(latex)
        s1 == IF s0 # <<>> /\ Head(s0) = "$" /\ s0[Len(s0)] = "$"
              THEN strip(SubSeq(s0, 2, Len(s0) - 1)) ELSE s0
        s2 == _normalize_pix2tex_noise(s1)
    IN IF s0 # <<>> /\ ~Truncated(s2) /\ _is_multiline_equation(RepairBraces(s2))
       THEN _convert_multiline(RepairBraces(s2), oks)
       ELSE convert(latex, oks[1])

(***************************************************************************)
(* ultra_mathml_recover of mathml_recovery.py, the earlier recovery        *)
(* module.  Its passes over the text are taken by what they come to (a     *)
(* run); the confidence is computed from that as the function computes it, *)
(* in thousandths.                                                         *)
(***************************************************************************)
\* empty: the input is blank; clean: it parses, looks structural and shows
\* no shredded pattern; shredded: _contains_shredded_patterns(input);
\* latex: passes A-C built a LaTeX candidate; compiler: HAS_LATEX2MATHML;
\* ok1, ok2: the compiler takes the candidate, the sanitized candidate;
\* structural: the compiled MathML has <mfrac, <munder, <msubsup or <msub;
\* commands: the candidate has \sum, \frac, ...; repaired: the XML repair
\* of pass E gives well-formed MathML
RunFields == {"empty", "clean", "shredded", "latex", "compiler", "ok1", "ok2",
              "structural", "commands", "repaired"}

_estimate_confidence_from_transforms(structural, commands, shredded) ==
    LET score == 200 + (IF structural THEN 400 ELSE 0) + (IF commands THEN 300 ELSE 0)
        penalized == IF shredded THEN (score * 85) \div 100 ELSE score
    IN IF penalized < 990 THEN penalized ELSE 990

\* lines 76-165: the confidence of the dict ultra_mathml_recover returns
legacy_ultra_mathml_recover(run) ==
    LET estimate == _estimate_confidence_from_transforms(run.structural, run.commands,
                                                         run.shredded)
        compiled == run.latex /\ run.compiler /\ (run.ok1 \/ run.ok2)
        passD == IF ~run.latex THEN 0
                 ELSE IF ~run.compiler THEN 350
                 ELSE IF run.ok1 THEN estimate
                 ELSE IF run.ok2 THEN (estimate * 8) \div 10
                 ELSE 0
        mathml_candidate == compiled \/ (~run.latex /\ run.repaired)
        confidence == IF ~compiled /\ ~run.latex /\ run.repaired THEN 250 ELSE passD
    IN IF run.empty THEN 0
       ELSE IF run.clean THEN 900
       ELSE IF mathml_candidate
            THEN (IF confidence < 200 THEN 200 ELSE IF confidence > 990 THEN 990 ELSE confidence)
       ELSE IF run.latex THEN (IF confidence < 150 THEN 150 ELSE confidence)
       ELSE 0

(***************************************************************************)
(* Values the variables of the other specifications keep                   *)
(***************************************************************************)
PipeIdle ==
    /\ raw_text = <<>> /\ recover_from_mathml = TRUE /\ openai_api_key = FALSE
    /\ pc = "off" /\ cleaned_mathml = <<>> /\ clean_latex = <<>> /\ is_corrupted = FALSE
    /\ recovery_out = NotCalled
    /\ result = NoResult /\ failed = {} /\ trace = <<>>

ReconIdle == rin = <<>> /\ rfirst = <<>> /\ rout = <<>> /\ rstage = "off"

Threads == {1, 2}

\* self.client before __init__ has assigned it
NoClient == [built |-> FALSE, timeout |-> Absent]

ConcIdle ==
    /\ environ = {} /\ environ0 = {} /\ tpc = [t \in Threads |-> "off"]
    /\ tkey = [t \in Threads |-> 1] /\ saved = [t \in Threads |-> {}]
    /\ seen = [t \in Threads |-> {}]
    /\ client = [t \in Threads |-> NoClient]

NotConverted == [raised |-> FALSE, mathml |-> <<>>]

BlockIdle == block_rows = <<>> /\ block_out = NotConverted /\ block_pc = "off"

NoRun == [f \in RunFields |-> FALSE]

LegacyIdle == legacy_run = NoRun /\ legacy_confidence = Absent /\ legacy_pc = "off"

NoShred == [text |-> <<>>, passes |-> 0, changed |-> FALSE, log |-> <<>>]

ShredIdle == shred_in = <<>> /\ shred_run = NoShred /\ shred_pc = "off"

LineIdle == line_in = <<>> /\ line_out = <<>> /\ line_pc = "off"

\* pix2tex_auto_fixer.py:66-73, the dataclass; latex and mathml default to None
FixResult(status, latex, mathml, latex_raw) ==
    [status |-> status, latex |-> latex, mathml |-> mathml, latex_raw |-> latex_raw]

NoFixResult == FixResult("", NoneText, NoneText, NoneText)

FixIdle ==
    /\ fixer = [max_attempts |-> 0, validate |-> FALSE, ocr |-> "none"]
    /\ fix_image = "missing" /\ fix_has_compiler = FALSE /\ fix_raw = <<>>
    /\ fix_candidate = <<>> /\ fix_attempts = 0 /\ fix_result = NoFixResult
    /\ fix_pc = "off"

(***************************************************************************)
(* Specification Spec: one run of MathExpressionPipeline.ingest.  The      *)
(* cleaner, the compiler and the OpenAI service are the environment.       *)
(***************************************************************************)
\* one call the run made: which component, and the text it was handed
Event(op, text) == [op |-> op, text |-> text]

\* the compiler calls of a recovery: _try_latex_to_mathml hands each
\* candidate to the compiler (mathml_recovery_pro.py:711-736)
CompileEvents(out) == [k \in 1..Len(out.attempts) |-> Event("compile", out.attempts[k].text)]

Init ==
    /\ raw_text \in Inputs
    /\ recover_from_mathml \in BOOLEAN
    /\ openai_api_key \in BOOLEAN
    /\ pc = "ingest"
    /\ cleaned_mathml = <<>>
    /\ clean_latex = <<>>
    /\ is_corrupted = FALSE
    /\ recovery_out = NotCalled
    /\ result = NoResult
    /\ failed = {}
    /\ trace = <<>>
    /\ ReconIdle /\ ConcIdle /\ BlockIdle /\ LegacyIdle /\ ShredIdle /\ LineIdle /\ FixIdle

\* lines 321-326: detect the input type; an empty input returns at once
Detect ==
    /\ pc = "ingest"
    /\ IF detect_input_type(raw_text) = "empty"
       THEN /\ result' = PipelineResult("empty", <<>>, <<>>, NoneText, raw_text, Absent, <<>>)
            /\ pc' = "done"
       ELSE /\ pc' = detect_input_type(raw_text)
            /\ UNCHANGED result
    /\ UNCHANGED <<givenVars, trace, cleaned_mathml, clean_latex, is_corrupted, failed,
                   recovery_out,
                   reconVars, concVars, blockVars, legacyVars, shredVars, lineVars, fixVars>>

\* lines 333-336: corruption check of the raw MathML
CheckRaw ==
    /\ pc = "mathml"
    /\ is_corrupted' = _is_corrupted_mathml(raw_text)
    /\ pc' = IF is_corrupted' THEN "recover_raw" ELSE "clean"
    /\ UNCHANGED <<givenVars, trace, cleaned_mathml, clean_latex, result, failed,
                   recovery_out,
                   reconVars, concVars, blockVars, legacyVars, shredVars, lineVars, fixVars>>

\* lines 339-346: the cleaner; when it raises or returns nothing the raw
\* text goes on
Clean ==
    /\ pc = "clean"
    /\ \E raises \in BOOLEAN :
         /\ cleaned_mathml' = IF raises \/ clean(raw_text) = <<>> THEN raw_text
                              ELSE clean(raw_text)
         /\ failed' = IF raises THEN failed \cup {"cleaner"} ELSE failed
    /\ pc' = "recheck"
    /\ UNCHANGED <<givenVars, trace, clean_latex, is_corrupted, result, recovery_out,
                   reconVars, concVars, blockVars, legacyVars, shredVars, lineVars, fixVars>>

\* a variant of Recheck that writes the text of a clean MathML out as LaTeX
RecheckGeneratesLatex ==
    /\ pc = "recheck"
    /\ is_corrupted' = (_is_corrupted_mathml(cleaned_mathml) \/ HasMtextLatex(cleaned_mathml))
    /\ IF is_corrupted'
       THEN /\ pc' = "recover_cleaned"
            /\ UNCHANGED result
       ELSE /\ pc' = "done"
            /\ result' = PipelineResult("mathml", _extract_text_from_mathml(cleaned_mathml),
                                        cleaned_mathml, cleaned_mathml, raw_text, 1000, <<>>)
    /\ UNCHANGED <<givenVars, trace, cleaned_mathml, clean_latex, failed, recovery_out,
                   reconVars, concVars, blockVars, legacyVars, shredVars, lineVars, fixVars>>

\* lines 349-368: the second check, the <mtext> check, or the text as it is
Recheck ==
    /\ pc = "recheck"
    /\ is_corrupted' = (_is_corrupted_mathml(cleaned_mathml) \/ HasMtextLatex(cleaned_mathml))
    /\ IF is_corrupted'
       THEN /\ pc' = "recover_cleaned"
            /\ UNCHANGED result
       ELSE /\ pc' = "done"
            /\ result' = PipelineResult("mathml", <<>>, cleaned_mathml, cleaned_mathml,
                                        raw_text, 1000, <<>>)
    /\ UNCHANGED <<givenVars, trace, cleaned_mathml, clean_latex, failed, recovery_out,
                   reconVars, concVars, blockVars, legacyVars, shredVars, lineVars, fixVars>>

\* lines 336, 351, 356: return self._recover_mathml(..), on the raw text or
\* on the cleaned one
Recover ==
    /\ pc \in {"recover_raw", "recover_cleaned"}
    /\ \E oc \in [1..3 -> BOOLEAN] :
         LET arg == IF pc = "recover_raw" THEN raw_text ELSE cleaned_mathml
         IN /\ recovery_out' = IF recover_from_mathml
                               THEN ultra_mathml_recover(arg, openai_api_key, oc)
                               ELSE NotCalled
            /\ result' = _recover_mathml(arg, recover_from_mathml, openai_api_key, oc)
            /\ failed' = failed \cup RecoverFailures(recover_from_mathml, recovery_out')
            /\ trace' = IF recover_from_mathml
                        THEN trace \o CompileEvents(recovery_out')
                        ELSE trace
    /\ pc' = "done"
    /\ UNCHANGED <<givenVars, cleaned_mathml, clean_latex, is_corrupted, reconVars, concVars, blockVars, legacyVars, shredVars, lineVars, fixVars>>

\* lines 376-392, 413: reconstruct unless the input is corrupted already,
\* then decide whether OpenAI is asked
Reconstruct ==
    /\ pc = "latex"
    /\ is_corrupted' = _is_corrupted_latex(raw_text)
    /\ clean_latex' = IF is_corrupted' THEN raw_text ELSE reconstruct(raw_text)
    /\ pc' = IF _is_corrupted_latex(clean_latex') /\ openai_api_key THEN "openai" ELSE "convert"
    /\ trace' = IF is_corrupted' THEN trace ELSE Append(trace, Event("reconstruct", raw_text))
    /\ UNCHANGED <<givenVars, cleaned_mathml, result, failed, recovery_out,
                   reconVars, concVars, blockVars, legacyVars, shredVars, lineVars, fixVars>>

\* a variant of OpenAICleanup that hands OpenAI the compiled tree
OpenAICleanupPassesMathml ==
    /\ pc = "openai"
    /\ \E reply \in OpenAIReplies :
         /\ clean_latex' = _try_openai_latex_cleanup(clean_latex, openai_api_key, reply)
         /\ failed' = IF reply.kind = "ok" THEN failed ELSE failed \cup {"escalation"}
         /\ trace' = IF reply.kind = "init_error" THEN trace
                     ELSE Append(trace, Event("openai", _safe_latex_to_mathml(clean_latex, TRUE)))
    /\ pc' = "convert"
    /\ UNCHANGED <<givenVars, cleaned_mathml, is_corrupted, result, recovery_out,
                   reconVars, concVars, blockVars, legacyVars, shredVars, lineVars, fixVars>>

\* lines 396-412: _try_openai_conversion returns None, then the cleanup call
OpenAICleanup ==
    /\ pc = "openai"
    /\ \E reply \in OpenAIReplies :
         /\ clean_latex' = _try_openai_latex_cleanup(clean_latex, openai_api_key, reply)
         /\ failed' = IF reply.kind = "ok" THEN failed ELSE failed \cup {"escalation"}
         \* line 277 raises before line 280 calls convert_latex_to_mathml
         /\ trace' = IF reply.kind = "init_error" THEN trace
                     ELSE Append(trace, Event("openai", clean_latex))
    /\ pc' = "convert"
    /\ UNCHANGED <<givenVars, cleaned_mathml, is_corrupted, result, recovery_out,
                   reconVars, concVars, blockVars, legacyVars, shredVars, lineVars, fixVars>>

\* lines 416-468: compile; the checks that follow only lead to
\* _try_openai_conversion, which returns None, and the result is built
Convert ==
    /\ pc = "convert"
    /\ \E ok \in BOOLEAN :
         /\ result' = PipelineResult("latex", clean_latex, _safe_latex_to_mathml(clean_latex, ok),
                                     NoneText, raw_text, Absent, <<>>)
         /\ failed' = IF convert(clean_latex, ok).raised THEN failed \cup {"compiler"} ELSE failed
    /\ trace' = Append(trace, Event("compile", clean_latex))
    /\ pc' = "done"
    /\ UNCHANGED <<givenVars, cleaned_mathml, clean_latex, is_corrupted, recovery_out,
                   reconVars, concVars, blockVars, legacyVars, shredVars, lineVars, fixVars>>

\* lines 471-481: the plain branch
Plain ==
    /\ pc = "plain"
    /\ clean_latex' = reconstruct(raw_text)
    /\ \E ok \in BOOLEAN :
         /\ result' = PipelineResult("plain", clean_latex', _safe_latex_to_mathml(clean_latex', ok),
                                     NoneText, raw_text, Absent, <<>>)
         /\ failed' = IF convert(clean_latex', ok).raised THEN failed \cup {"compiler"} ELSE failed
    /\ trace' = trace \o <<Event("reconstruct", raw_text), Event("compile", clean_latex')>>
    /\ pc' = "done"
    /\ UNCHANGED <<givenVars, cleaned_mathml, is_corrupted, recovery_out,
                   reconVars, concVars, blockVars, legacyVars, shredVars, lineVars, fixVars>>

Next ==
    \/ Detect \/ CheckRaw \/ Clean \/ Recheck \/ Recover
    \/ Reconstruct \/ OpenAICleanup \/ Convert \/ Plain

Spec == Init /\ [][Next]_vars

(***************************************************************************)
(* Specification SpecRecon: the reconstructor applied to a text, and then  *)
(* to its own output.                                                      *)
(***************************************************************************)
ReconAlphabet == {"$", "x", "_", "^", ")", "{", "}", " ", "BULLET", "E_ACUTE"}

InitRecon ==
    /\ rin \in SeqsUpTo(ReconAlphabet, MaxLen)
    /\ rfirst = <<>>
    /\ rout = <<>>
    /\ rstage = "input"
    /\ PipeIdle /\ ConcIdle /\ BlockIdle /\ LegacyIdle /\ ShredIdle /\ LineIdle /\ FixIdle

ReconstructOnce ==
    /\ rstage = "input"
    /\ rfirst' = reconstruct(rin)
    /\ rout' = rfirst'
    /\ rstage' = "once"
    /\ UNCHANGED <<rin, pipeVars, concVars, blockVars, legacyVars, shredVars, lineVars, fixVars>>

ReconstructAgain ==
    /\ rstage = "once"
    /\ rout' = reconstruct(rout)
    /\ rstage' = "twice"
    /\ UNCHANGED <<rin, rfirst, pipeVars, concVars, blockVars, legacyVars, shredVars, lineVars, fixVars>>

NextRecon == ReconstructOnce \/ ReconstructAgain

SpecRecon == InitRecon /\ [][NextRecon]_vars

(***************************************************************************)
(* Specification SpecConc: two pipeline runs reach                         *)
(* _try_openai_latex_cleanup at the same time, and each constructs an      *)
(* OpenAIMathMLConverter (pipeline.py:277).  __init__ takes the proxy      *)
(* variables out of os.environ, builds its client and puts them back.      *)
(* A step is one statement; the threads interleave between statements.     *)
(***************************************************************************)
\* how many of the names in proxy_keys (line 88) the model follows
MaxProxyKeys == 2

proxy_keys == SubSeq(<<"HTTP_PROXY", "HTTPS_PROXY", "http_proxy", "https_proxy",
                       "ALL_PROXY", "all_proxy">>, 1, MaxProxyKeys)

InitConc ==
    /\ environ \in SUBSET {proxy_keys[k] : k \in 1..Len(proxy_keys)}
    /\ environ0 = environ
    /\ tpc = [t \in Threads |-> "check"]
    /\ tkey = [t \in Threads |-> 1]
    /\ saved = [t \in Threads |-> {}]
    /\ seen = [t \in Threads |-> {}]
    /\ client = [t \in Threads |-> NoClient]
    /\ PipeIdle /\ ReconIdle /\ BlockIdle /\ LegacyIdle /\ ShredIdle /\ LineIdle /\ FixIdle

\* lines 89-90: for key in proxy_keys: if key in os.environ
CheckKey(t) ==
    /\ tpc[t] = "check"
    /\ IF tkey[t] > Len(proxy_keys)
       THEN tpc' = [tpc EXCEPT ![t] = "client"] /\ UNCHANGED tkey
       ELSE IF proxy_keys[tkey[t]] \in environ
       THEN tpc' = [tpc EXCEPT ![t] = "pop"] /\ UNCHANGED tkey
       ELSE tkey' = [tkey EXCEPT ![t] = @ + 1] /\ UNCHANGED tpc
    /\ UNCHANGED <<environ, saved, seen, environ0, client, pipeVars, reconVars, blockVars, legacyVars, shredVars, lineVars, fixVars>>

\* line 91: proxy_env_vars[key] = os.environ.pop(key); the pop raises
\* KeyError when the variable has gone since the test, and the exception
\* leaves __init__ before the try statement, so nothing is put back
PopKey(t) ==
    /\ tpc[t] = "pop"
    /\ IF proxy_keys[tkey[t]] \in environ
       THEN /\ environ' = environ \ {proxy_keys[tkey[t]]}
            /\ saved' = [saved EXCEPT ![t] = @ \cup {proxy_keys[tkey[t]]}]
            /\ tkey' = [tkey EXCEPT ![t] = @ + 1]
            /\ tpc' = [tpc EXCEPT ![t] = "check"]
       ELSE /\ tpc' = [tpc EXCEPT ![t] = "raised"]
            /\ UNCHANGED <<environ, saved, tkey>>
    /\ UNCHANGED <<seen, environ0, client, pipeVars, reconVars, blockVars, legacyVars, shredVars, lineVars, fixVars>>

\* line 41: the default of the timeout parameter, which the pipeline does
\* not pass (pipeline.py:277-280)
DefaultTimeout == 30

\* line 85: httpx_timeout = timeout if timeout and timeout > 0 else 30.0
httpx_timeout(timeout) == IF timeout > 0 THEN timeout ELSE 30

\* what the kinds of exception OpenAI(..) may end in lead to
ClientErrors == {"proxies", "type_error", "other"}

\* lines 95-149: the client __init__ ends with.  oc[k]: the k-th call of
\* OpenAI(..) returns a client; err: the exception of the first one when it
\* does not.  The httpx.Client carries the timeout, and the paths that pop
\* "http_client" from client_kwargs build a client that was given none
OpenAIClient(timeout, oc, err) ==
    LET with_http_client == [built |-> TRUE, timeout |-> httpx_timeout(timeout)]
        without_http_client == [built |-> TRUE, timeout |-> Absent]
    IN IF oc[1] THEN with_http_client                        \* lines 96-109
       ELSE IF err = "proxies"                               \* lines 111-134
            THEN IF oc[2] THEN with_http_client               \* lines 120-129
                 ELSE IF oc[3] THEN without_http_client       \* lines 130-134
                 ELSE NoClient
       ELSE IF err = "type_error" THEN NoClient               \* lines 138-139
       ELSE IF oc[2] THEN without_http_client                 \* lines 140-146
       ELSE NoClient                                          \* lines 147-149

\* lines 93-147: httpx.Client(..) and OpenAI(..) read the environment
BuildClient(t) ==
    /\ tpc[t] = "client"
    /\ seen' = [seen EXCEPT ![t] = environ]
    /\ \E oc \in [1..3 -> BOOLEAN], err \in ClientErrors :
         client' = [client EXCEPT ![t] = OpenAIClient(DefaultTimeout, oc, err)]
    /\ tkey' = [tkey EXCEPT ![t] = 1]
    /\ tpc' = [tpc EXCEPT ![t] = "restore"]
    /\ UNCHANGED <<environ, saved, environ0, pipeVars, reconVars, blockVars, legacyVars, shredVars, lineVars, fixVars>>

\* lines 148-152: finally: for key, value in proxy_env_vars.items():
\* os.environ[key] = value
RestoreKey(t) ==
    /\ tpc[t] = "restore"
    /\ IF tkey[t] > Len(proxy_keys)
       THEN /\ tpc' = [tpc EXCEPT ![t] = IF client[t].built THEN "done" ELSE "raised"]
            /\ UNCHANGED <<tkey, environ>>
       ELSE /\ environ' = IF proxy_keys[tkey[t]] \in saved[t]
                          THEN environ \cup {proxy_keys[tkey[t]]} ELSE environ
            /\ tkey' = [tkey EXCEPT ![t] = @ + 1]
            /\ UNCHANGED tpc
    /\ UNCHANGED <<saved, seen, environ0, client, pipeVars, reconVars, blockVars, legacyVars, shredVars, lineVars, fixVars>>

\* lines 364-378: convert_latex_to_mathml calls
\* self.client.chat.completions.create(model, messages, temperature,
\* max_tokens); no timeout is among the arguments and self.timeout is not
\* read, so the request has the timeout the client was built with
CallOpenAI(t) ==
    /\ tpc[t] = "done"
    /\ tpc' = [tpc EXCEPT ![t] = "called"]
    /\ UNCHANGED <<environ, tkey, saved, seen, environ0, client,
                   pipeVars, reconVars, blockVars, legacyVars, shredVars, lineVars, fixVars>>

NextConc ==
    \E t \in Threads : CheckKey(t) \/ PopKey(t) \/ BuildClient(t) \/ RestoreKey(t)
                           \/ CallOpenAI(t)

SpecConc == InitConc /\ [][NextConc]_vars

(***************************************************************************)
(* Specification SpecBlock: LatexToMathML.convert applied to a block of    *)
(* rows of cells.  The compiler is the environment.                        *)
(***************************************************************************)
MaxRows == 3
MaxCells == 2

CellTexts == {<<>>, <<"x">>}
BlockRows == SeqsUpTo(CellTexts, MaxCells) \ {<<>>}
Blocks == SeqsUpTo(BlockRows, MaxRows) \ {<<>>}

\* the text of a block: "&" between the cells, a row break between the rows
RowText(row) == JoinWith(row, <<" ", "&", " ">>)
BlockText(rows) ==
    JoinWith([i \in 1..Len(rows) |-> RowText(rows[i])], <<" ", "\\", "\\", " ">>)

InitBlock ==
    /\ block_rows \in Blocks
    /\ block_out = NotConverted
    /\ block_pc = "given"
    /\ PipeIdle /\ ReconIdle /\ ConcIdle /\ LegacyIdle /\ ShredIdle /\ LineIdle /\ FixIdle

ConvertBlock ==
    /\ block_pc = "given"
    /\ \E oks \in [1..MaxRows -> BOOLEAN] :
         block_out' = convert_paths(BlockText(block_rows), oks)
    /\ block_pc' = "done"
    /\ UNCHANGED <<block_rows, pipeVars, reconVars, concVars, legacyVars, shredVars, lineVars, fixVars>>

NextBlock == ConvertBlock

SpecBlock == InitBlock /\ [][NextBlock]_vars

(***************************************************************************)
(* Specification SpecConfidence: one call of an entry point that reports   *)
(* a confidence: ingest (and, through it, ultra_mathml_recover of          *)
(* mathml_recovery_pro.py), or ultra_mathml_recover of mathml_recovery.py. *)
(***************************************************************************)
\* a blank input has no other outcome, and the clean path needs an input
\* without shredded patterns
LegacyRuns ==
    { run \in [RunFields -> BOOLEAN] :
        /\ run.empty => \A f \in RunFields \ {"empty"} : ~run[f]
        /\ run.clean => ~run.shredded }

InitLegacy ==
    /\ legacy_run \in LegacyRuns
    /\ legacy_confidence = Absent
    /\ legacy_pc = "given"
    /\ PipeIdle /\ ReconIdle /\ ConcIdle /\ BlockIdle /\ ShredIdle /\ LineIdle /\ FixIdle

LegacyRecover ==
    /\ legacy_pc = "given"
    /\ legacy_confidence' = legacy_ultra_mathml_recover(legacy_run)
    /\ legacy_pc' = "done"
    /\ UNCHANGED <<legacy_run, pipeVars, reconVars, concVars, blockVars, shredVars, lineVars,
                   fixVars>>

NextConfidence == Next \/ LegacyRecover

SpecConfidence == (Init \/ InitLegacy) /\ [][NextConfidence]_vars

(***************************************************************************)
(* Specification SpecShred: _repair_shredded_commands or                   *)
(* _collapse_letter_subscripts of mathml_recovery_pro.py applied to a      *)
(* text of subscript fragments.                                            *)
(***************************************************************************)
\* most fragments in a text handed to the repair
MaxShred == 3

ShredChunks ==
    { Pair("q", "u") \o Pair("a", "d"), <<"_", "{", "o", "}">> \o Pair("t", "s"),
      <<"_", "{", "u", "}", "m">>, Pair("s", "u") \o <<"m">>,
      Pair("f", "r") \o Pair("a", "c"), Pair("i", "n"), Pair("p", "r"), Pair("x", "1"),
      <<"x">>, <<"\\">> }

ShredInputs == {Flatten(b) : b \in SeqsUpTo(ShredChunks, MaxShred)}

InitShred ==
    /\ shred_in \in ShredInputs
    /\ shred_run = NoShred
    /\ shred_pc = "given"
    /\ PipeIdle /\ ReconIdle /\ ConcIdle /\ BlockIdle /\ LegacyIdle /\ LineIdle /\ FixIdle

\* mathml_recovery_pro.py:636, candidate = _repair_shredded_commands(candidate, log)
ShredRepair ==
    /\ shred_pc = "given"
    /\ shred_run' = RepairShredded(shred_in)
    /\ shred_pc' = "repaired"
    /\ UNCHANGED <<shred_in, pipeVars, reconVars, concVars, blockVars, legacyVars, lineVars, fixVars>>

\* mathml_recovery_pro.py:642, candidate = _collapse_letter_subscripts(candidate, log)
ShredCollapse ==
    /\ shred_pc = "given"
    /\ shred_run' = CollapseSubscripts(shred_in)
    /\ shred_pc' = "collapsed"
    /\ UNCHANGED <<shred_in, pipeVars, reconVars, concVars, blockVars, legacyVars, lineVars, fixVars>>

NextShred == ShredRepair \/ ShredCollapse

SpecShred == InitShred /\ [][NextShred]_vars

(***************************************************************************)
(* Specification SpecLine: LatexToMathML._repair_latex_line applied to a   *)
(* line of \left and \right delimiters.                                    *)
(***************************************************************************)
\* most delimiters in a line
MaxLine == 4

LineChunks ==
    { <<"\\left", "(">>, <<"\\left", "[">>, <<"\\left", "\\", "{">>, <<"\\left", "|">>,
      <<"\\right", ")">>, <<"\\right", "]">>, <<"\\right", "\\", "}">>, <<"\\right", "|">>,
      <<"x">> }

LineInputs == {Flatten(b) : b \in SeqsUpTo(LineChunks, MaxLine)}

InitLine ==
    /\ line_in \in LineInputs
    /\ line_out = <<>>
    /\ line_pc = "given"
    /\ PipeIdle /\ ReconIdle /\ ConcIdle /\ BlockIdle /\ LegacyIdle /\ ShredIdle /\ FixIdle

\* latex_to_mathml.py:461, latex = self._repair_latex_line(latex)
RepairLine ==
    /\ line_pc = "given"
    /\ line_out' = _repair_latex_line(line_in)
    /\ line_pc' = "done"
    /\ UNCHANGED <<line_in, pipeVars, reconVars, concVars, blockVars, legacyVars, shredVars,
                   fixVars>>

NextLine == RepairLine

SpecLine == InitLine /\ [][NextLine]_vars

(***************************************************************************)
(* Specification SpecFix: one call of Pix2TexAutoFixer.fix_and_convert     *)
(* (pix2tex_auto_fixer.py:116-232).  The image file, the OCR model and the *)
(* LaTeX compiler are the environment.                                     *)
(***************************************************************************)
\* most fragments in an OCR output
MaxFix == 3

\* line 88, max_attempts: int = 5
DefaultMaxAttempts == 5

FixChunks == { <<"x">>, <<"{">>, <<"}">>, <<" ">>, <<"$">>, <<"_">>, <<"\\", "x">>,
               <<"_", "{", "x", "_", "{">> }

FixInputs == {Flatten(b) : b \in SeqsUpTo(FixChunks, MaxFix)}

\* str.startswith / str.endswith
StartsWith(s, lit) == LitAt(s, 1, lit)
EndsWith(s, lit) == Len(s) >= Len(lit) /\ LitAt(s, Len(s) - Len(lit) + 1, lit)

\* s[a:-b] for a, b > 0
Inner(s, a, b) == IF a + 1 <= Len(s) - b THEN SubSeq(s, a + 1, Len(s) - b) ELSE <<>>

\* lines 289-295: the OCR text without its outer $ or $$
_run_pix2tex(raw) ==
    LET latex == strip(raw)
    IN IF StartsWith(latex, <<"$", "$">>) /\ EndsWith(latex, <<"$", "$">>)
       THEN strip(Inner(latex, 2, 2))
       ELSE IF StartsWith(latex, <<"$">>) /\ EndsWith(latex, <<"$">>)
       THEN strip(Inner(latex, 1, 1))
       ELSE latex

\* [^{}]* covers s[a..b]
NoBraces(s, a, b) == \A k \in a..b : s[k] \notin {"{", "}"}

\* line 310, re.search(r"_\{[^{}]*_\{[^{}]*\}[^{}]*\}", latex)
DoubleSubscript(s) ==
    \E i, j, k, l \in 1..Len(s) :
        /\ i + 1 < j /\ j + 1 < k /\ k < l
        /\ s[i] = "_" /\ s[i + 1] = "{" /\ NoBraces(s, i + 2, j - 1)
        /\ s[j] = "_" /\ s[j + 1] = "{" /\ NoBraces(s, j + 2, k - 1)
        /\ s[k] = "}" /\ NoBraces(s, k + 1, l - 1)
        /\ s[l] = "}"

RECURSIVE LetterPairRun(_, _)
\* how many [A-Za-z]_\{[A-Za-z]\} stand in a row from position i on
LetterPairRun(s, i) ==
    IF i + 4 <= Len(s) /\ s[i] \in Letters /\ s[i + 1] = "_" /\ s[i + 2] = "{"
       /\ s[i + 3] \in Letters /\ s[i + 4] = "}"
    THEN 1 + LetterPairRun(s, i + 5) ELSE 0

\* line 314, re.search(r'(?:[A-Za-z]_\{[A-Za-z]\}){3,}', latex)
LetterByLetter(s) == \E i \in 1..Len(s) : LetterPairRun(s, i) >= 3

RECURSIVE SkipWs(_, _)
\* the position \s* reaches from position i
SkipWs(s, i) == IF i <= Len(s) /\ s[i] \in WS THEN SkipWs(s, i + 1) ELSE i

\* line 318, re.search(r'\\[a-zA-Z]\s*_\s*\{?[a-zA-Z]\}?', latex)
BrokenCommandFragment(s) ==
    \E i \in 1..Len(s) :
        /\ s[i] = "\\" /\ i + 1 <= Len(s) /\ s[i + 1] \in Letters
        /\ LET u == SkipWs(s, i + 2)
               v == SkipWs(s, u + 1)
               w == IF v <= Len(s) /\ s[v] = "{" THEN v + 1 ELSE v
           IN u <= Len(s) /\ s[u] = "_" /\ w <= Len(s) /\ s[w] \in Letters

\* lines 300-330.  validate: self.validate; ok: the compiler does not raise
_is_valid_latex(latex, validate, ok) ==
    IF strip(latex) = <<>> THEN FALSE
    ELSE IF Count(latex, "{") # Count(latex, "}") THEN FALSE
    ELSE IF DoubleSubscript(latex) THEN FALSE
    ELSE IF LetterByLetter(latex) THEN FALSE
    ELSE IF BrokenCommandFragment(latex) THEN FALSE
    ELSE IF validate THEN ok
    ELSE TRUE

\* lines 332-337.  has: the module's HAS_LATEX2MATHML (lines 48-54)
_to_mathml(latex, has, ok) ==
    IF ~has \/ ~ok THEN [raised |-> TRUE, mathml |-> NoneText]
    ELSE [raised |-> FALSE, mathml |-> latex2mathml_convert(JoinSplit(latex))]

\* lines 342-354.  Line 346 is re.sub(r'^\${1,2}|\\${1,2}$', '', s): in the
\* second alternative \\ is a backslash and {1,2} repeats the anchor $, so
\* compiling the pattern ends in re.error("nothing to repeat") on every
\* call, after the strip of line 344 and before any text is cleaned
_minimal_cleanup(latex) == [raised |-> TRUE, text |-> strip(latex)]

\* lines 84-111, __init__: self.validate is the argument and the module flag
InitFix ==
    /\ fix_has_compiler \in BOOLEAN
    /\ \E validate_with_latex2mathml \in BOOLEAN :
       fixer \in [max_attempts : {0, DefaultMaxAttempts},
                  validate : {validate_with_latex2mathml /\ fix_has_compiler},
                  ocr : {"none", "no_output", "text"}]
    /\ fix_image \in {"missing", "unreadable", "ok"}
    /\ fix_raw \in FixInputs
    /\ fix_candidate = <<>>
    /\ fix_attempts = 0
    /\ fix_result = NoFixResult
    /\ fix_pc = "start"
    /\ PipeIdle /\ ReconIdle /\ ConcIdle /\ BlockIdle /\ LegacyIdle /\ ShredIdle /\ LineIdle

FixUnchanged ==
    UNCHANGED <<fixer, fix_image, fix_has_compiler, fix_raw, pipeVars, reconVars, concVars,
                blockVars, legacyVars, shredVars, lineVars>>

\* lines 120-123: the image is not there
FixNoImage ==
    /\ fix_pc = "start" /\ fix_image = "missing"
    /\ fix_result' = FixResult("failed", NoneText, NoneText, NoneText)
    /\ fix_pc' = "done"
    /\ UNCHANGED <<fix_candidate, fix_attempts>>
    /\ FixUnchanged

\* lines 126-132: preprocess_image raises
FixPreprocessFails ==
    /\ fix_pc = "start" /\ fix_image = "unreadable"
    /\ fix_result' = FixResult("failed", NoneText, NoneText, NoneText)
    /\ fix_pc' = "done"
    /\ UNCHANGED <<fix_candidate, fix_attempts>>
    /\ FixUnchanged

\* lines 135-141 and 283-288: _run_pix2tex raises, no model or no output
FixExtractionFails ==
    /\ fix_pc = "start" /\ fix_image = "ok" /\ fixer.ocr # "text"
    /\ fix_result' = FixResult("failed", NoneText, NoneText, NoneText)
    /\ fix_pc' = "done"
    /\ UNCHANGED <<fix_candidate, fix_attempts>>
    /\ FixUnchanged

\* lines 136-158: the OCR text and the quick check of it
FixQuickCheck ==
    /\ fix_pc = "start" /\ fix_image = "ok" /\ fixer.ocr = "text"
    /\ \E ok_validate, ok_convert \in BOOLEAN :
       LET raw_latex == _run_pix2tex(fix_raw)
           valid == _is_valid_latex(raw_latex, fixer.validate, ok_validate)
           conv == _to_mathml(raw_latex, fix_has_compiler, ok_convert)
       IN /\ fix_candidate' = raw_latex
          /\ IF valid /\ ~conv.raised
             THEN /\ fix_result' = FixResult("ok", raw_latex, conv.mathml, raw_latex)
                  /\ fix_pc' = "done"
             ELSE /\ fix_result' = fix_result
                  /\ fix_pc' = "loop"
    /\ UNCHANGED fix_attempts
    /\ FixUnchanged

\* lines 164-172: one pass of the while loop.  Stage A, line 172, stands in
\* no try block: what _minimal_cleanup raises leaves fix_and_convert, and
\* lines 173-227 are never reached
FixAttempt ==
    /\ fix_pc = "loop" /\ fix_attempts < fixer.max_attempts
    /\ fix_attempts' = fix_attempts + 1
    /\ _minimal_cleanup(fix_candidate).raised
    /\ fix_pc' = "raised"
    /\ UNCHANGED <<fix_candidate, fix_result>>
    /\ FixUnchanged

\* lines 164 and 230-232: the loop is over
FixGiveUp ==
    /\ fix_pc = "loop" /\ fix_attempts >= fixer.max_attempts
    /\ fix_result' = FixResult("failed", NoneText, NoneText, _run_pix2tex(fix_raw))
    /\ fix_pc' = "done"
    /\ UNCHANGED <<fix_candidate, fix_attempts>>
    /\ FixUnchanged

NextFix ==
    \/ FixNoImage
    \/ FixPreprocessFails
    \/ FixExtractionFails
    \/ FixQuickCheck
    \/ FixAttempt
    \/ FixGiveUp

SpecFix == InitFix /\ [][NextFix]_vars

(***************************************************************************)
(* Properties                                                              *)
(***************************************************************************)
\* some <mtext> element of m holds a backslash followed by a letter
MtextHoldsCommand(m) ==
    \E i \in 1..Len(m) : m[i] \in {"<mtext>"} /\ HasCommand(ElementText(m, i))

\* C1: the MathML a finished run returns has no <mtext> element whose text
\* holds a backslash followed by letters
C1_NoCommandInMtext == pc = "done" => ~MtextHoldsCommand(result.mathml)

\* the result says that something went wrong: its MathML is one of the
\* data-error roots, or its log has an entry
Reported(r) == (r.mathml # <<>> /\ Head(r.mathml) \in ErrorRoots) \/ r.recovery_log # <<>>

\* C2: ingest ends with a result of one of the four source types, and when
\* the cleaner, the compiler, the recovery module or the OpenAI call failed
\* during the run the result reports it
C2_FailuresReported ==
    pc = "done" =>
        /\ result.source_type \in {"empty", "mathml", "latex", "plain"}
        /\ (failed # {} => Reported(result))

\* C3: the mathml field of a returned result is empty or parses as XML with
\* one root element
C3_WellFormed == pc = "done" => (result.mathml = <<>> \/ ParsesAsXml(result.mathml))

RECURSIVE SpelledBy(_, _)
\* s starts with one single-letter <mi> node for each letter of word
SpelledBy(s, word) ==
    IF word = <<>> THEN TRUE
    ELSE /\ Len(s) >= 3
         /\ s[1] = "<mi>" /\ s[2] = Head(word) /\ s[3] = "</mi>"
         /\ SpelledBy(SubSeq(s, 4, Len(s)), Tail(word))

\* a run of single-letter <mi> nodes of m spells one of the words the
\* MathML checks look for
SpellsCommand(m) ==
    \E w \in ShreddedWords : \E i \in 1..Len(m) : SpelledBy(SubSeq(m, i, Len(m)), w)

\* SHRED_REPAIR, r'\\?f_\{r\}a_\{c\}': the letters of \frac over subscripted
\* fragments, the backslash optional
ShreddedFrac == <<"f", "_", "{", "r", "}", "a", "_", "{", "c", "}">>

\* C4: an input that holds a shredded-command signature is reported corrupted
\* by the check the pipeline applies to it (_is_corrupted_mathml to MathML,
\* _is_corrupted_latex to LaTeX), and _detect_corruption_indicators reports
\* the MathML ones too
C4_SignatureFlagged ==
    /\ (pc \in {"clean", "recover_raw"} /\ SpellsCommand(raw_text)
            => is_corrupted /\ _detect_corruption_indicators(raw_text))
    /\ (pc \in {"openai", "convert"} /\ Contains(raw_text, ShreddedFrac) => is_corrupted)

\* C5: the clean_latex of a returned result holds no run of letter_{letter}
\* fragments that spells a command
C5_NoShreddedLatex == pc = "done" => ~Contains(result.clean_latex, ShreddedFrac)

\* C6: when a text misses more than MaxBraceRepair closing braces, the
\* reconstructor adds none
C6_NoLargeBraceRepair ==
    rstage = "once" /\ Count(rin, "{") - Count(rin, "}") > MaxBraceRepair
        => Count(rfirst, "}") <= Count(rin, "}")

\* C7: reconstruct(reconstruct(x)) = reconstruct(x)
C7_Idempotent == rstage = "twice" => rout = rfirst

\* C8: a run in which the OpenAI call failed ends with a data-error root
C8_EscalationFailureIsTerminal ==
    pc = "done" /\ "escalation" \in failed
        => result.mathml # <<>> /\ Head(result.mathml) \in ErrorRoots

\* C9: when the constructors running side by side have all ended, os.environ
\* is what it was before they started
C9_EnvironmentRestored ==
    (\A t \in Threads : tpc[t] \in {"done", "raised"}) => environ = environ0

\* C10: when the MathML was found corrupted and the recovery module is
\* missing or raised, the result has source_type "mathml", an empty <math>
\* root with a data-error attribute (and so neither of the texts handed to
\* recovery), an empty clean_latex and confidence 0
C10_RecoveryUnavailable ==
    pc = "done" /\ is_corrupted /\ result.source_type = "mathml"
      /\ (~recover_from_mathml \/ "recovery" \in failed)
        => /\ result.mathml \in {<<ErrUltraMissing>>, <<ErrUltraCrash>>}
           /\ result.mathml \notin {raw_text, cleaned_mathml}
           /\ result.clean_latex = <<>>
           /\ result.recovery_confidence = 0

\* a run in which the recovery module was there and raised
C10_RecoveryRaised ==
    /\ pc = "done" /\ is_corrupted /\ result.source_type = "mathml"
    /\ recover_from_mathml /\ "recovery" \in failed
    /\ result.mathml = <<ErrUltraCrash>>

\* C11: when the converter raised in a run on LaTeX or plain input, the
\* result keeps the source type of the input and its mathml is the
\* data-error="conversion-failed" root, with no <mtext> holding the LaTeX
C11_ConversionFailureRoot ==
    pc = "done" /\ detect_input_type(raw_text) \in {"latex", "plain"} /\ "compiler" \in failed
        => /\ result.source_type = detect_input_type(raw_text)
           /\ result.mathml = <<ErrConversionFailed>>
           /\ ~Contains(result.mathml, <<"<mtext>">>)

\* a run on LaTeX input in which the converter raised on a text that holds a
\* command
C11_ConverterRaised ==
    /\ pc = "done" /\ detect_input_type(raw_text) = "latex" /\ "compiler" \in failed
    /\ HasCommand(result.clean_latex)
    /\ result.mathml = <<ErrConversionFailed>>

\* C12: convert raises, and gives no tree, when the text handed to it is
\* empty or ends in unmatched opening braces
C12_ConvertSignalsError ==
    pc = "done" /\ result.source_type \in {"latex", "plain"}
      /\ (strip(result.clean_latex) = <<>> \/ Truncated(strip(result.clean_latex)))
        => "compiler" \in failed /\ result.mathml = <<ErrConversionFailed>>

\* C13: for an empty or whitespace-only input the result is the "empty" one,
\* with empty clean_latex and mathml, and its log has the entry "empty input"
C13_EmptyInputLogged ==
    pc = "done" /\ strip(raw_text) = <<>>
        => /\ result.source_type = "empty"
           /\ result.clean_latex = <<>> /\ result.mathml = <<>>
           /\ \E k \in 1..Len(result.recovery_log) : result.recovery_log[k] = "empty input"

RECURSIVE CellsOfRows(_)
\* for every <mtr> of m, in order, the number of its <mtd> elements after
\* the label cell the builder puts first
CellsOfRows(m) ==
    IF m = <<>> THEN <<>>
    ELSE IF Head(m) = "<mtr>"
         THEN LET close == CHOOSE k \in 1..Len(m) :
                               m[k] = "</mtr>" /\ \A j \in 1..(k - 1) : m[j] # "</mtr>"
              IN <<Count(SubSeq(m, 1, close), "<mtd>") + Count(SubSeq(m, 1, close), "<mtd />") - 1>>
                 \o CellsOfRows(SubSeq(m, close + 1, Len(m)))
         ELSE CellsOfRows(Tail(m))

\* C16: a block of N rows that convert lays out as a table comes back with
\* N <mtr> elements, the i-th with as many content cells as row i has
\* cells; no row is dropped and no cells are merged
C16_RowsAndCellsKept ==
    block_pc = "done" /\ _is_multiline_equation(BlockText(block_rows))
        => /\ ~block_out.raised
           /\ CellsOfRows(block_out.mathml) = [i \in 1..Len(block_rows) |-> Len(block_rows[i])]

\* the confidence after each attempt of a recovery run, and the one reported
ConfidenceTrail(out) ==
    [k \in 1..Len(out.attempts) |-> out.attempts[k].conf] \o <<out.confidence>>

\* C17: within one recovery run the confidence after an attempt is never
\* above the confidence after the attempt before it, and the confidence
\* reported is never above the one after the last attempt
C17_ConfidenceNeverRises ==
    pc = "done" /\ recovery_out # NotCalled /\ ~recovery_out.raised
        => \A k \in 1..(Len(ConfidenceTrail(recovery_out)) - 1) :
               ConfidenceTrail(recovery_out)[k + 1] <= ConfidenceTrail(recovery_out)[k]

\* C18: every confidence reported lies in [0, 1]: the recovery_confidence of
\* the result of ingest when it has one, the confidence of the dict either
\* ultra_mathml_recover returns
C18_ConfidenceInUnitInterval ==
    /\ result.recovery_confidence # Absent => result.recovery_confidence \in 0..1000
    /\ ~recovery_out.raised => recovery_out.confidence \in 0..1000
    /\ legacy_pc = "done" => legacy_confidence \in 0..1000

\* a recovery run whose confidence passed 1 and was reported as 1
C18_Clamped ==
    /\ pc = "done" /\ ~recovery_out.raised
    /\ \E k \in 1..Len(recovery_out.attempts) : recovery_out.attempts[k].conf > 1000
    /\ recovery_out.confidence = 1000
    /\ result.recovery_confidence = 1000

\* s is empty or whitespace only
Blank(s) == \A i \in 1..Len(s) : s[i] \in WS

\* s holds a MathML root: its first character that is not whitespace opens
\* a <math element, and a </math closes one
HasMathRoot(s) ==
    /\ \E i \in 1..Len(s) :
         s[i] \in MathOpenTags \cup ErrorRoots /\ \A j \in 1..(i - 1) : s[j] \in WS
    /\ \E i \in 1..Len(s) : s[i] = "</math>"

\* s holds one of the structural tags
HasStructuralTag(s) == \E i \in 1..Len(s) : s[i] \in {"<mrow>", "<msub>", "<mi>", "<mo>"}

\* s holds a backslash command, a subscript or superscript marker, or "$"
HasLatexMark(s) == HasCommand(s) \/ \E i \in 1..Len(s) : s[i] \in {"_", "^", "$"}

C20_WellFormedMathmlRendered ==
    pc = "done" /\ detect_input_type(raw_text) = "mathml" /\ ParsesAsXml(raw_text)
      /\ ~is_corrupted
        => /\ result.source_type = "mathml"
           /\ result.clean_latex # <<>>
           /\ \E i \in 1..Len(result.mathml) : result.mathml[i] \in MathOpenTags \cup ErrorRoots

\* the positions of the calls of one component in the trace
CallsOf(op) == {k \in 1..Len(trace) : trace[k].op = op}

\* C21: OpenAI is called only after the compiler was tried (and the
\* reconstructor before it): no call of OpenAI stands in the trace without
\* a compiler call and a reconstructor call before it
C21_EscalationAfterCompile ==
    \A k \in CallsOf("openai") :
        /\ \E j \in CallsOf("compile") : j < k
        /\ \E j \in CallsOf("reconstruct") : j < k

\* C22: on the LaTeX branch the reconstructor runs exactly when the
\* corruption check flagged the input, and before the compiler
C22_ReconstructIffCorrupted ==
    pc = "done" /\ result.source_type = "latex"
        => /\ is_corrupted <=> CallsOf("reconstruct") # {}
           /\ \A k \in CallsOf("reconstruct") : \A j \in CallsOf("compile") : k < j

C24_EveryCallHasTimeout ==
    \A t \in Threads : tpc[t] = "called" => client[t].timeout > 0

\* the function that ran recorded in its log that its loop did not converge
NonConvergenceLogged == \E k \in 1..Len(shred_run.log) : shred_run.log[k].msg = "did not converge"

\* C25: the repair loops make at most 5 passes, and a loop that made its
\* last pass with the text still changing leaves a record of that in the log
C25_CeilingReachedIsLogged ==
    shred_pc \in {"repaired", "collapsed"}
        => /\ shred_run.passes <= 5
           /\ shred_run.changed => NonConvergenceLogged

\* a single subscripted letter, or a run of one or two letters
SingleOrDouble(s) ==
    \/ Len(s) = 5 /\ PairRun(s, 1) = 1
    \/ Len(s) \in {1, 2} /\ \A i \in 1..Len(s) : s[i] \in Letters

\* C26: a text that is one subscripted letter, or one or two letters, comes
\* back from both functions as it went in, and so without a command in it
C26_ShortRunsUntouched ==
    shred_pc \in {"repaired", "collapsed"} /\ SingleOrDouble(shred_in)
        => shred_run.text = shred_in /\ ~HasCommand(shred_run.text)

\* the delimiter that stands at position i: one character, or "\\" and the
\* brace after it
DelimiterAt(s, i) ==
    IF i > Len(s) THEN <<>>
    ELSE IF s[i] = "\\" /\ i < Len(s) THEN <<s[i], s[i + 1]>>
    ELSE <<s[i]>>

RECURSIVE OpenLefts(_, _, _)
\* the delimiters of the \left of s that no \right closes, the innermost
\* last: every \right closes the latest \left still open
OpenLefts(s, i, stack) ==
    IF i > Len(s) THEN stack
    ELSE IF s[i] = "\\left" THEN OpenLefts(s, i + 1, Append(stack, DelimiterAt(s, i + 1)))
    ELSE IF s[i] = "\\right" /\ stack # <<>>
         THEN OpenLefts(s, i + 1, SubSeq(stack, 1, Len(stack) - 1))
    ELSE OpenLefts(s, i + 1, stack)

\* the one closer of an opener
CloserOf(d) ==
    IF d = <<"(">> THEN <<")">>
    ELSE IF d = <<"[">> THEN <<"]">>
    ELSE IF d = <<"\\", "{">> THEN <<"\\", "}">>
    ELSE d

RECURSIVE RightsOf(_, _)
\* the delimiters of the \right of s, in order
RightsOf(s, i) ==
    IF i > Len(s) THEN <<>>
    ELSE IF s[i] = "\\right" THEN <<DelimiterAt(s, i + 1)>> \o RightsOf(s, i + 1)
    ELSE RightsOf(s, i + 1)

\* C27: the line returned has the \right of the line given and, after
\* them, one \right for every \left left open, the innermost first, each
\* with the closer of its opener
C27_ClosersMatchOpeners ==
    line_pc = "done" /\ OpenLefts(line_in, 1, <<>>) # <<>>
        => LET open == OpenLefts(line_in, 1, <<>>)
           IN RightsOf(line_out, 1)
                = RightsOf(line_in, 1) \o [k \in 1..Len(open) |-> CloserOf(open[Len(open) + 1 - k])]

\* C28: ultra_mathml_recover ends every call by returning its dict, also
\* when no conversion attempt gave MathML and the OpenAI fallback is on; it
\* does not end in an exception
C28_RecoverNeverRaises ==
    pc = "done" /\ recover_from_mathml /\ result.source_type = "mathml"
        => ~recovery_out.raised

\* C29: the raw_input of every result is the text ingest was called with
C29_RawInputIsArgument == pc = "done" => result.raw_input = raw_text

\* C30: every call of fix_and_convert ends by returning a FixResult, after
\* at most max_attempts passes of the repair loop; the status is 'ok',
\* 'fixed' or 'failed', and latex and mathml are both set exactly when the
\* status is not 'failed'
C30_FixAlwaysReturnsResult ==
    /\ fix_attempts <= fixer.max_attempts
    /\ fix_pc # "raised"
    /\ fix_pc = "done"
        => /\ fix_result.status \in {"ok", "fixed", "failed"}
           /\ (fix_result.latex # NoneText /\ fix_result.mathml # NoneText)
                <=> fix_result.status # "failed"
           /\ fix_result.latex = NoneText <=> fix_result.mathml = NoneText

====
